---- MODULE Spec2Model ----
(***************************************************************************)
(* telegrampy: the update dispatcher (telegrampy/dispatcher.py), the FSM   *)
(* context (telegrampy/fsm.py) and the conversation-state store            *)
(* (telegrampy/storage.py), as a state machine.                            *)
(*                                                                         *)
(* The program is single-threaded asyncio code: start_polling awaits every *)
(* call it makes, so one step of the model is one iteration of one of the  *)
(* loops of Dispatcher (polling cycle, batch, middlewares, registrations). *)
(***************************************************************************)
EXTENDS Naturals, Sequences, FiniteSets, TLC

(* ------------------------------ bounds --------------------------------- *)

MaxMessageHandlers == 2
MaxCallbackHandlers == 2
MaxMiddlewares == 2
MaxBatch == 2

(* ------------------------------ inputs --------------------------------- *)

\* Python's None where a string is expected (a state label, a filter) ...
None == "None"

\* ... and where an object is expected (a record of the store, a context, a
\* message, a callback query, an update).
Nothing == [none |-> TRUE]

\* The outcome of a call that raised instead of returning a value.
Raised == [raised |-> TRUE]

Users == {1}
Chats == {1, 2}
Texts == {"x", "y"}

\* State labels a conversation can be in (State is a str Enum, fsm.py:11).
States == {"A", "B"}

\* What register_handler is given as required state: nothing, a label, or
\* the string "*" the examples pass (examples/fsm_bot.py:68).
RequiredStates == {None, "*", "A"}

\* What register_handler / register_callback_handler is given as filter:
\* nothing, or a Text("x") / CallbackData("x") filter.
FilterChoices == {None, "is_x"}

\* And a filter whose check raises on some events, as Command("start") does
\* on the text "/" and as a Filter(func) does when func raises: here it is
\* true of "x" and raises on every other text.
RaisingFilterChoices == FilterChoices \cup {"x_or_raise"}

\* Message (types.py:69), what dispatch reads of it: the sender's id, the
\* chat's id and the text. The messages dispatched here carry a sender and a
\* text, as the messages of users do.
Messages == [from_user : Users, chat : Chats, text : Texts]

CallbackQueries == [from_user : Users, data : Texts]

\* Update (types.py:195): message and callback_query are optional fields; the
\* platform fills at most one of the optional fields of an update, and an
\* update of another kind (an edited message, a poll) carries neither.
Updates ==
    {[message |-> m, callback_query |-> Nothing] : m \in Messages \cup {Nothing}}
    \cup {[message |-> Nothing, callback_query |-> q] : q \in CallbackQueries}

EmptyData == <<>>

\* dict.update(kwargs), and d[key] = value for a one-key kwargs: the keys of
\* kwargs take their new values, the other keys keep theirs.
dict_update(d, kwargs) ==
    [k \in DOMAIN d \cup DOMAIN kwargs |->
        IF k \in DOMAIN kwargs THEN kwargs[k] ELSE d[k]]

\* The keyword arguments given to update_data, the (key, value) given to set.
\* A value is told by its Python type: an int, a tuple, a list, or an object
\* json has no encoding for (a datetime, a Message).
Kwargs == {[x |-> [int |-> 1]], [x |-> [int |-> 2]], [y |-> [int |-> 2]]}

\* The data mappings a context comes to hold ...
DataMaps ==
    {EmptyData} \cup Kwargs \cup {dict_update(a, b) : a \in Kwargs, b \in Kwargs}

\* ... and those given to storage.set_data by a coroutine that calls it
\* itself.
SetDataArgs == {EmptyData, [x |-> [int |-> 1]], [x |-> [int |-> 2], y |-> [int |-> 2]]}

\* ... and with values of the other types.
AnyKwargs == {[x |-> [int |-> 1]], [x |-> [tuple |-> <<1>>]], [y |-> [object |-> 1]]}

\* The state argument of set_state: a member of a State enum, or None.
StateArgs == States \cup {None}

\* The coroutines that use the storage: one running alone, whose calls the
\* history follows, and two running concurrently (two requests that the
\* webhook server is serving at the same time).
Sequential == {1}

Concurrent == {2, 3}

Tasks == Sequential \cup Concurrent

\* The chats whose conversations a coroutine works on: the two concurrent
\* ones serve two updates of the same conversation.
ChatsOf(t) == IF t \in Concurrent THEN {1} ELSE Chats

\* WebhookServer(secret_token=...): no token, or a token (of 1 to 256
\* characters, as the platform requires).
SecretTokens == {None, "s"}

\* The X-Telegram-Bot-Api-Secret-Token header of a request: absent
\* (headers.get gives None), the token of the server, another value.
SecretHeaders == {None, "s", "t"}

\* The body of a request: the JSON of an update, or something request.json()
\* or Update(**data) raises on.
Bodies == {"update", "malformed"}

Requests == [header : SecretHeaders, body : Bodies]

(* ------------------------------- state --------------------------------- *)

VARIABLES
    handlers,       \* Dispatcher.handlers: category -> list of registrations
    middlewares,    \* Dispatcher.middlewares: list of middleware objects
    fsm_contexts,   \* Dispatcher.fsm_contexts: user id -> FSMContext or Nothing
    store,          \* the backend of the storage: (user, chat) -> record or Nothing
    pc,             \* where start_polling is
    batch_len,      \* len(updates) of the batch get_updates returned
    batch_idx,      \* how many updates of the batch the for loop has taken
    update,         \* the Update process_update is working on, or Nothing
    mw_i,           \* position of the middleware loop (1-based)
    scan_i,         \* position of the registration loop (1-based)
    calls,          \* history: the calls made for the current update, in order
    context0,       \* history: fsm_contexts[sender] when message sub-dispatch began
    record0,        \* history: store[(sender, chat)] when message sub-dispatch began
    exc,            \* history: what raised in the current polling cycle
    secret_token,   \* WebhookServer.secret_token
    request,        \* the request _handle_webhook is serving, or Nothing
    response,       \* the status _handle_webhook answered it with, 0 before
    task,           \* per coroutine using the storage: the call it is in (or made last)
    fsm,            \* per coroutine: the FSMContext object it holds
    prev,           \* history: the call coroutine 1 made before the one in
                    \* task[1], and what its redis.get had returned
    check,          \* a filter, the event it is applied to, what check returned
    api,            \* the Bot method a caller awaits, and its HTTP exchange
    mw,             \* a middleware of middleware.py and what it was given last
    story_handler,  \* a StoryHandler, the clock, and the call made last
    topic_manager   \* a TopicManager, and the call made last

vars == <<handlers, middlewares, fsm_contexts, store, pc, batch_len, batch_idx,
          update, mw_i, scan_i, calls, context0, record0, exc,
          secret_token, request, response, task, fsm, prev, check, api,
          mw, story_handler, topic_manager>>

\* The state of the webhook server, and of the coroutines that use the
\* storage directly.
webhookVars == <<secret_token, request, response>>

storageVars == <<task, fsm, prev>>

\* The objects of middleware.py, story.py and topic.py.
moduleVars == <<mw, story_handler, topic_manager>>

\* A filter under check, a Bot method under way, and those objects.
restVars == <<check, api, moduleVars>>

\* The state of the dispatcher and of what calls it, the store apart.
dispatcherVars == <<handlers, middlewares, fsm_contexts, pc, batch_len, batch_idx,
                    update, mw_i, scan_i, calls, context0, record0, exc>>

(* ------------------------------ filters -------------------------------- *)

\* Text("x").check / CallbackData("x").check: the pattern ^x$ matched against
\* the event's text (its callback data).
Check(filters, text) ==
    IF filters \in {"is_x", "x_or_raise"} THEN text = "x" ELSE FALSE

\* "await filters.check(event)" raises: the test is made for a registration
\* that has a filter ("if filters and ...").
CheckRaises(filters, text) ==
    filters = "x_or_raise" /\ text /= "x"

\* "if filters and not await filters.check(event): continue": TRUE when the
\* scan goes on to the next test for this registration.
FiltersPass(filters, text) ==
    ~(filters /= None /\ ~Check(filters, text))

(* --------------------------- storage, FSM ------------------------------ *)

\* str(n) of an int: its decimal digits, after "-" when it is negative.
Digits == <<"0", "1", "2", "3", "4", "5", "6", "7", "8", "9">>

RECURSIVE str(_)
str(n) ==
    IF n < 0 THEN <<"-">> \o str(0 - n)
    ELSE IF n < 10 THEN <<Digits[n + 1]>>
    ELSE str(n \div 10) \o <<Digits[(n % 10) + 1]>>

\* ':'.join(parts)
RECURSIVE join(_)
join(parts) ==
    IF parts = <<>> THEN <<>>
    ELSE IF Len(parts) = 1 THEN Head(parts)
    ELSE Head(parts) \o <<":">> \o join(Tail(parts))

\* A key made of the parts one after the other, with nothing between them.
get_key_Unseparated(parts) ==
    <<"telegrampy", ":">> \o
        (IF Len(parts) = 3 THEN parts[1] \o parts[2] \o parts[3] ELSE join(parts))

\* BaseStorage._get_key(*parts): f"{self.prefix}:{':'.join(parts)}", the
\* prefix being the default one.
get_key(parts) == <<"telegrampy", ":">> \o join(parts)

\* key = self._get_key("fsm", str(user_id), str(chat_id))
Key(user_id, chat_id) == get_key(<<<<"fsm">>, str(user_id), str(chat_id)>>)

Keys == {Key(u, c) : u \in Users, c \in Chats}

\* Conversations whose ids share digits: two of one user, two of one chat.
IsolationPairs == {<<1, 11>>, <<11, 1>>, <<1, 1>>}

IsolationKeys == {Key(p[1], p[2]) : p \in IsolationPairs}

\* The truth value Python gives a state argument or a stored state field:
\* None and the empty string are false.
Truthy(value) == value /= None /\ value /= ""

\* State(value), the call of the Enum class State (fsm.py:11): a lookup of the
\* member whose value is given. State declares no member (the labels of a
\* bot are members of its own subclasses), so the call raises whatever the
\* value.
State(value) == Raised

\* RedisStorage.get_state: None when the key holds nothing, else the pair
\* (state, data), here a record of the two, the state being
\* "State(state_data["state"]) if state_data["state"] else None"; the call
\* raises when State(...) does.
get_state(st, user_id, chat_id) ==
    LET state_data == st[Key(user_id, chat_id)]
    IN IF state_data = Nothing
       THEN Nothing
       ELSE IF Truthy(state_data.state)
            THEN IF State(state_data.state) = Raised
                 THEN Raised
                 ELSE [state |-> State(state_data.state), data |-> state_data.data]
            ELSE [state |-> None, data |-> state_data.data]

\* "state.value if state else None": the state field set_state writes.
StateField(state) == IF Truthy(state) THEN state ELSE None

\* A set_state that writes a new record whether or not one exists.
set_state_value_Resetting(data, state) ==
    [state |-> StateField(state), data |-> EmptyData]

\* A set_state that writes a record of the state field alone when it creates.
set_state_value_StateOnly(data, state) ==
    IF data /= Nothing
    THEN [data EXCEPT !.state = StateField(state)]
    ELSE [state |-> StateField(state)]

\* RedisStorage.set_state, the value it gives redis.set after redis.get
\* returned data (Nothing for no value): json.dumps of the record read with
\* its state replaced, or of a new record with empty data.
set_state_value(data, state) ==
    IF data /= Nothing
    THEN [data EXCEPT !.state = StateField(state)]
    ELSE [state |-> StateField(state), data |-> EmptyData]

\* RedisStorage.set_state: the store after the whole call, nothing else
\* running between its redis.get and its redis.set.
set_state(st, user_id, chat_id, state) ==
    [st EXCEPT ![Key(user_id, chat_id)] = set_state_value(@, state)]

\* A set_data that merges the given mapping into the one of the record.
set_data_value_Merging(state_data, data) ==
    IF state_data /= Nothing
    THEN [state_data EXCEPT !.data = dict_update(@, data)]
    ELSE [state |-> None, data |-> data]

\* RedisStorage.set_data, the value it gives redis.set after redis.get
\* returned state_data: the record read with its data replaced, or a new
\* record without state.
set_data_value(state_data, data) ==
    IF state_data /= Nothing
    THEN [state_data EXCEPT !.data = data]
    ELSE [state |-> None, data |-> data]

\* RedisStorage.set_data: the store after the whole call.
set_data(st, user_id, chat_id, data) ==
    [st EXCEPT ![Key(user_id, chat_id)] = set_data_value(@, data)]

\* A clear that leaves a record without state and with empty data.
clear_Emptying(st, user_id, chat_id) ==
    [st EXCEPT ![Key(user_id, chat_id)] = [state |-> None, data |-> EmptyData]]

\* RedisStorage.clear: redis.delete(key).
clear(st, user_id, chat_id) ==
    [st EXCEPT ![Key(user_id, chat_id)] = Nothing]

\* FSMContext.__init__
FSMContext(user_id, chat_id, state, data) ==
    [user_id |-> user_id, chat_id |-> chat_id, state |-> state, data |-> data]

\* The classmethod "get" of the class body (fsm.py:51): a context holding
\* what get_state returned for the key, a fresh one when it returned None; it
\* raises when get_state does.  The class body goes on to define another
\* "get" (fsm.py:121), which takes its place: no call reaches this one.
FSMContext_get_classmethod(st, user_id, chat_id) ==
    IF get_state(st, user_id, chat_id) = Raised
    THEN Raised
    ELSE IF get_state(st, user_id, chat_id) /= Nothing
         THEN FSMContext(user_id, chat_id, get_state(st, user_id, chat_id).state,
                         get_state(st, user_id, chat_id).data)
         ELSE FSMContext(user_id, chat_id, None, EmptyData)

\* The method "get" (fsm.py:121), "return self.data.get(key, default)": it
\* raises AttributeError on an object that has no attribute data.
FSMContext_get_method(self, key, default) ==
    IF "data" \notin DOMAIN self THEN Raised
    ELSE IF key \in DOMAIN self.data THEN self.data[key] ELSE default

\* The attributes of a RedisStorage object: prefix, and the client of the
\* backend.
RedisStorage(st) == [prefix |-> "fsm:", redis |-> st]

\* FSMContext.get(storage, user_id, chat_id): the name get of the class is
\* the method defined last, a plain function when taken from the class, so
\* the call binds self to the storage, key to user_id, default to chat_id.
FSMContext_get(st, user_id, chat_id) ==
    FSMContext_get_method(RedisStorage(st), user_id, chat_id)

\* FSMContext.set_state: the context after the call ...
FSMContext_set_state(ctx, state) == [ctx EXCEPT !.state = state]

\* ... and the store after it.
FSMContext_set_state_store(st, ctx, state) ==
    set_state(st, ctx.user_id, ctx.chat_id, state)

\* An update_data that replaces the mapping by the keyword arguments.
FSMContext_update_data_Replacing(ctx, kwargs) == [ctx EXCEPT !.data = kwargs]

\* FSMContext.update_data, the context after "self.data.update(kwargs)".
FSMContext_update_data(ctx, kwargs) ==
    [ctx EXCEPT !.data = dict_update(@, kwargs)]

\* FSMContext.set, the context after "self.data[key] = value" (the pair
\* given as a one-key mapping).
FSMContext_set(ctx, kwargs) ==
    [ctx EXCEPT !.data = dict_update(@, kwargs)]

\* FSMContext.get_data: "return self.data".
FSMContext_get_data(ctx) == ctx.data

\* FSMContext.clear, the context after "self.state = None; self.data = {}".
FSMContext_clear(ctx) == [ctx EXCEPT !.state = None, !.data = EmptyData]

\* FSMContext.finish: "await self.clear()".
FSMContext_finish(ctx) == FSMContext_clear(ctx)

\* A call of a coroutine on the storage or on its context: its name, its
\* key, the state and the data it hands to the storage, the keyword
\* arguments it was given.
Op(name, user_id, chat_id, state, data, kwargs) ==
    [name |-> name, user_id |-> user_id, chat_id |-> chat_id,
     state |-> state, data |-> data, kwargs |-> kwargs]

\* A coroutine that has made no call yet. Of a call: where it is, the call,
\* what the key held when the call reached the backend (what its redis.get
\* returned), the value it returned, the context as it was before.
IdleTask ==
    [pc |-> "idle", op |-> Nothing, read |-> Nothing, value |-> Nothing,
     before |-> Nothing]

\* json.dumps writes a tuple as it writes a list, and raises TypeError on an
\* object it has no encoding for; an int and a list are written as they are.
json_value(v) == IF "tuple" \in DOMAIN v THEN [list |-> v.tuple] ELSE v

\* json.dumps(state_data): the text, told by what json.loads makes of it.
json_dumps(state_data) ==
    IF "data" \notin DOMAIN state_data THEN [text |-> state_data]
    ELSE IF \E k \in DOMAIN state_data.data : "object" \in DOMAIN state_data.data[k]
    THEN Raised
    ELSE [text |-> [state_data EXCEPT !.data =
                       IF DOMAIN @ = {} THEN @
                       ELSE [k \in DOMAIN @ |-> json_value(@[k])]]]

\* json.loads(text)
json_loads(text) == text.text

\* A redis.set that is given the value made from what the key holds now.
Written_FromCurrent(op, read, current) ==
    IF op.name \in {"set_state", "FSMContext.set_state"}
    THEN set_state_value(current, op.state)
    ELSE set_data_value(current, op.data)

\* The value a pending set_state / set_data gives redis.set: made from what
\* its redis.get returned, whatever the key holds by now.
Written(op, read, current) ==
    IF op.name \in {"set_state", "FSMContext.set_state"}
    THEN set_state_value(read, op.state)
    ELSE set_data_value(read, op.data)

(* ----------------------------- dispatcher ------------------------------ *)

\* The state test without its "not fsm_context" half: a registration with a
\* required state is skipped only when a context is held and its state differs.
StatePasses_WithoutContextTest(state, contexts, message) ==
    ~(state /= None
      /\ contexts[message.from_user] /= Nothing
      /\ contexts[message.from_user].state /= state)

\* "if state: ctx = self.fsm_contexts.get(message.from_user.id);
\*  if not ctx or ctx.state != state: continue": TRUE when the registration is
\* not skipped by the state test.
StatePasses(state, contexts, message) ==
    ~(state /= None
      /\ (contexts[message.from_user] = Nothing
          \/ contexts[message.from_user].state /= state))

\* The scan position after a message handler was awaited, whether it returned
\* or raised (the except clause only logs): the for loop takes the next
\* registration.
AfterMessageHandler(i, raised) == i + 1

\* The same for a callback handler.
AfterCallbackHandler(i, raised) == i + 1

\* A middleware loop that steps over the middleware after the one that returned.
AfterMiddleware_Skipping(i) == i + 2

\* The middleware loop after middleware i returned.
AfterMiddleware(i) == i + 1

\* A start_polling without the except clause: the exception ends the loop.
OnPollingException_Uncaught == "raised"

\* Where start_polling goes when the try block raised: "except Exception"
\* logs, and the loop body ends with the sleep.
OnPollingException == "sleep"

\* A registered middleware: the place it was registered at, and what it is:
\* a middleware of the bot's author ("custom"), or one of middleware.py.
Middleware(id, kind) == [id |-> id, kind |-> kind]

IncludedMiddlewares == {"logging", "throttling", "auth", "error_handling", "metrics"}

\* The fields of Update that middlewares read, of those it declares: it
\* declares no from_user and no date, and reading them raises AttributeError.
UpdateFields == {"update_id", "message", "callback_query"}

\* What the wrapped handler of a middleware does when awaited, and what a
\* middleware of the bot's author does.
WrappedOutcomes == {"returns", "raises"}

\* middleware.process_update(update), for what "await self.handler(update)"
\* does and for whether the middleware declines to call its handler (the
\* user is throttled, is not allowed).
Middleware_process_update(kind, wrapped, declines) ==
    CASE kind = "custom" -> wrapped
      [] kind = "logging" -> wrapped
      [] kind = "throttling" ->
            IF "from_user" \notin UpdateFields \/ "date" \notin UpdateFields
            THEN "raises"
            ELSE IF declines THEN "returns" ELSE wrapped
      [] kind = "auth" ->
            IF "from_user" \notin UpdateFields THEN "raises"
            ELSE IF declines THEN "returns" ELSE wrapped
      [] kind = "error_handling" -> "returns"
      [] kind = "metrics" -> wrapped

\* A middleware loop that catches what a middleware raises and goes on.
WhenMiddlewareRaises_Caught == "middlewares"

\* Where control goes when a middleware raised: the for loop of process_update
\* has no try, so the exception leaves process_update, and the except clause
\* of its caller takes it: the one of start_polling, or the one of
\* _handle_webhook when a request is being served.
WhenMiddlewareRaises ==
    IF request = Nothing THEN OnPollingException ELSE "respond_error"

\* Where control goes when the check of a filter raised: "await
\* filters.check(...)" stands before the try of the sub-dispatch, so the
\* exception leaves _process_message / _process_callback_query and
\* process_update, and the except clause of the caller takes it.
WhenFilterRaises ==
    IF request = Nothing THEN OnPollingException ELSE "respond_error"

\* A sub-dispatch without its try: what a handler raises leaves process_update.
StageAfterHandler_Propagating(stage, raised) ==
    IF raised THEN OnPollingException ELSE stage

\* The stage of process_update after a handler was awaited: "except Exception
\* as e: logger.error(...)" keeps what a handler raised inside the
\* sub-dispatch, which stays where it is.
StageAfterHandler(stage, raised) == stage

\* What a handler body, which is code of the bot's author, does when awaited:
\* it returns, it raises, it sets the conversation's state through a context
\* it makes, FSMContext(storage, user_id, chat_id) (which the dispatcher does
\* not hold), it puts such a context into Dispatcher.fsm_contexts under the
\* sender's id, or it sets the state through the context held there.
HandlerEffects ==
    {[kind |-> k, state |-> None] : k \in {"return", "raise", "attach"}}
    \cup {[kind |-> k, state |-> s] : k \in {"set_state", "attached_set_state"}, s \in States}

CallbackEffects == {[kind |-> k, state |-> None] : k \in {"return", "raise"}}

\* The handler bodies that leave Dispatcher.fsm_contexts to the Dispatcher:
\* they return, raise, or set the state through a context of their own.
OwnEffects == {e \in HandlerEffects : e.kind \in {"return", "raise", "set_state"}}

\* The handler body raises.
EffectRaises(effect, st, message) == effect.kind = "raise"

\* Dispatcher.fsm_contexts after a message handler ran with the effect.
EffectOnContexts(effect, contexts, st, message) ==
    CASE EffectRaises(effect, st, message) -> contexts
      [] effect.kind = "attach" ->
            [contexts EXCEPT ![message.from_user] =
                FSMContext(message.from_user, message.chat, None, EmptyData)]
      [] effect.kind = "attached_set_state" /\ contexts[message.from_user] /= Nothing ->
            [contexts EXCEPT ![message.from_user] =
                FSMContext_set_state(contexts[message.from_user], effect.state)]
      [] OTHER -> contexts

\* The store after a message handler ran with the effect.
EffectOnStore(effect, contexts, st, message) ==
    CASE EffectRaises(effect, st, message) -> st
      [] effect.kind = "set_state" ->
            FSMContext_set_state_store(
                st, FSMContext(message.from_user, message.chat, None, EmptyData), effect.state)
      [] effect.kind = "attached_set_state" /\ contexts[message.from_user] /= Nothing ->
            FSMContext_set_state_store(st, contexts[message.from_user], effect.state)
      [] OTHER -> st

\* An entry of the history of calls.
Call(kind, idx, raised) == [kind |-> kind, idx |-> idx, raised |-> raised]

(* --------------------------- built-in filters -------------------------- *)

\* Longest text of an event the filters are applied to.
MaxLen == 4

\* The characters of texts, command names and pattern sources: the slash,
\* a whitespace character, a letter in both cases, and the regular-expression
\* metacharacter ".".  "^" and "$" occur in pattern sources only.
Chars == {"/", " ", "a", "A", "."}

Whitespace == {" "}

RECURSIVE StringsOfLen(_)
StringsOfLen(n) ==
    IF n = 0 THEN {<<>>}
    ELSE {<<c>> \o s : c \in Chars, s \in StringsOfLen(n - 1)}

Strings(n) == UNION {StringsOfLen(k) : k \in 0..n}

\* A Python str value; None is Nothing.
Str(s) == [str |-> s]

\* A Python list value.
List(l) == [list |-> l]

\* bool(value) is False: None, the empty string, the empty list.
Falsy(value) == value \in {Nothing, Str(<<>>), List(<<>>)}

\* An event is a record of the fields its pydantic model declares; reading
\* any other attribute of it raises AttributeError.
hasattr(event, name) == name \in DOMAIN event

\* str.lower()
lower_char(c) == IF c = "A" THEN "a" ELSE c

lower(s) == [i \in 1..Len(s) |-> lower_char(s[i])]

\* str.startswith(prefix) for a prefix of one character
startswith(s, c) == Len(s) > 0 /\ s[1] = c

\* str.split(): the whitespace-delimited words, none of them empty.
RECURSIVE lstrip(_)
lstrip(s) ==
    IF s = <<>> THEN <<>>
    ELSE IF Head(s) \in Whitespace THEN lstrip(Tail(s)) ELSE s

RECURSIVE first_word(_)
first_word(s) ==
    IF s = <<>> \/ Head(s) \in Whitespace THEN <<>>
    ELSE <<Head(s)>> \o first_word(Tail(s))

RECURSIVE split(_)
split(s) ==
    LET rest == lstrip(s)
        word == first_word(rest)
    IN  IF rest = <<>> THEN <<>>
        ELSE <<word>> \o split(SubSeq(rest, Len(word) + 1, Len(rest)))

\* re.compile(source) for a source made of literal characters, ".", a
\* leading "^" and a trailing "$": the atoms to match one character each,
\* and whether the end of the string is required after them.
Atom(c) == [any |-> c = ".", char |-> c]

re_compile(source) ==
    LET body0 == IF startswith(source, "^") THEN Tail(source) ELSE source
        dollar == Len(body0) > 0 /\ body0[Len(body0)] = "$"
        body == IF dollar THEN SubSeq(body0, 1, Len(body0) - 1) ELSE body0
    IN  [atoms |-> [i \in 1..Len(body) |-> Atom(body[i])], dollar |-> dollar]

AtomMatches(atom, c) == atom.any \/ atom.char = c

\* Pattern.match(string): a match at the beginning of the string; it need
\* not reach the end of the string unless the pattern ends with "$".
re_match(pattern, string) ==
    /\ Len(pattern.atoms) <= Len(string)
    /\ \A i \in 1..Len(pattern.atoms) : AtomMatches(pattern.atoms[i], string[i])
    /\ pattern.dollar => Len(pattern.atoms) = Len(string)

\* The result of Filter.check: "True", "False", or "raised" when the
\* filter function raises.
Bool(b) == IF b THEN "True" ELSE "False"

\* A str argument becomes a one-element list (isinstance(command, str)).
AsList(arg) == IF "str" \in DOMAIN arg THEN <<arg.str>> ELSE arg.list

Command(command) == [func |-> "check_command", arg |-> AsList(command)]

check_command(command, event) ==
    IF ~hasattr(event, "text") THEN "raised"
    ELSE IF Falsy(event.text) \/ ~startswith(event.text.str, "/") THEN "False"
    ELSE LET words == split(Tail(event.text.str))
         IN  IF words = <<>> THEN "raised"
             ELSE Bool(\E i \in 1..Len(command) : lower(words[1]) = lower(command[i]))

\* A str argument is compiled between "^" and "$" as it is; a compiled
\* pattern is used as given.
AsPattern(arg) ==
    IF "str" \in DOMAIN arg THEN re_compile(<<"^">> \o arg.str \o <<"$">>)
    ELSE arg.pattern

\* given: the argument of the constructor, kept for the record.
Text(text) == [func |-> "check_text", arg |-> AsPattern(text), given |-> text]

check_text(pattern, event) ==
    IF ~hasattr(event, "text") THEN "raised"
    ELSE IF Falsy(event.text) THEN "False"
    ELSE Bool(re_match(pattern, event.text.str))

CallbackData(data) ==
    [func |-> "check_callback", arg |-> AsPattern(data), given |-> data]

check_callback(pattern, event) ==
    IF ~hasattr(event, "data") THEN "raised"
    ELSE IF Falsy(event.data) THEN "False"
    ELSE Bool(re_match(pattern, event.data.str))

ChatType(chat_type) == [func |-> "check_chat_type", arg |-> AsList(chat_type)]

check_chat_type(chat_type, event) ==
    IF ~hasattr(event, "chat") THEN "raised"
    ELSE Bool(\E i \in 1..Len(chat_type) : event.chat.type = chat_type[i])

\* An int argument becomes a one-element list (isinstance(user_id, int)).
AsIdList(arg) == IF "int" \in DOMAIN arg THEN <<arg.int>> ELSE arg.list

UserID(user_id) == [func |-> "check_user_id", arg |-> AsIdList(user_id)]

check_user_id(user_id, event) ==
    IF ~hasattr(event, "from_user") THEN "raised"
    ELSE IF Falsy(event.from_user) THEN "False"
    ELSE Bool(\E i \in 1..Len(user_id) : event.from_user.id = user_id[i])

ChatID(chat_id) == [func |-> "check_chat_id", arg |-> AsIdList(chat_id)]

check_chat_id(chat_id, event) ==
    IF ~hasattr(event, "chat") THEN "raised"
    ELSE Bool(\E i \in 1..Len(chat_id) : event.chat.id = chat_id[i])

MediaType(media_type) == [func |-> "check_media_type", arg |-> AsList(media_type)]

\* for mt in media_type: the first kind decides when it raises or is true.
RECURSIVE check_media_type(_, _)
check_media_type(media_type, event) ==
    IF media_type = <<>> THEN "False"
    ELSE IF ~hasattr(event, Head(media_type)) THEN "raised"
    ELSE IF ~Falsy(event[Head(media_type)]) THEN "True"
    ELSE check_media_type(Tail(media_type), event)

\* Filter.check(event): await self.func(event)
Filter_check(filter, event) ==
    CASE filter.func = "check_command" -> check_command(filter.arg, event)
      [] filter.func = "check_text" -> check_text(filter.arg, event)
      [] filter.func = "check_callback" -> check_callback(filter.arg, event)
      [] filter.func = "check_chat_type" -> check_chat_type(filter.arg, event)
      [] filter.func = "check_user_id" -> check_user_id(filter.arg, event)
      [] filter.func = "check_chat_id" -> check_chat_id(filter.arg, event)
      [] filter.func = "check_media_type" -> check_media_type(filter.arg, event)

\* The events the filters are applied to.  A Message always has a chat; its
\* text, sender and attachments are optional; it declares the fields photo
\* (a list of sizes) and video, and no field animation.  A CallbackQuery
\* always has a sender; its data is optional; it has no text and no chat.
TheUser == [id |-> 1]

TheChat == [id |-> 1, type |-> "private"]

OptionalTexts == {Nothing} \cup {Str(s) : s \in Strings(MaxLen)}

ShortTexts == {Nothing} \cup {Str(s) : s \in Strings(2)}

Attachments == {Nothing, List(<<>>), List(<<1>>)}

TextMessages ==
    {[text |-> t, from_user |-> TheUser, chat |-> TheChat,
      photo |-> Nothing, video |-> Nothing] : t \in OptionalTexts}

MediaMessages ==
    {[text |-> t, from_user |-> u, chat |-> TheChat, photo |-> p, video |-> v] :
        t \in {Nothing, Str(<<"a">>)}, u \in {Nothing, TheUser},
        p \in Attachments, v \in {Nothing, [file_id |-> 1]}}

DataQueries ==
    {[from_user |-> TheUser, data |-> d] : d \in OptionalTexts}

ShortQueries ==
    {[from_user |-> TheUser, data |-> d] : d \in ShortTexts}

\* The arguments the filters are constructed with.
CommandNames == {<<"a">>, <<"A">>, <<"a", "a">>}

CommandFilters ==
    {Command(Str(c)) : c \in CommandNames}
        \cup {Command(List(<<c, d>>)) : c, d \in CommandNames}

PatternSources == Strings(2) \ {<<>>}

\* Text(...) and CallbackData(...) with a str, with re.compile(source), and
\* with re.compile(source + "$").
PatternArgs ==
    {Str(s) : s \in PatternSources}
        \cup {[pattern |-> re_compile(s)] : s \in PatternSources}
        \cup {[pattern |-> re_compile(s \o <<"$">>)] : s \in PatternSources}

TextFilters == {Text(a) : a \in PatternArgs}

CallbackDataFilters == {CallbackData(a) : a \in PatternArgs}

MediaKinds == {"photo", "video", "animation"}

MediaFilters ==
    {MediaType(Str(k)) : k \in MediaKinds}
        \cup {MediaType(List(<<k, l>>)) : k, l \in MediaKinds}

ChatTypeFilters == {ChatType(Str("private")), ChatType(List(<<"group", "private">>))}

IdFilters ==
    {UserID([int |-> 1]), UserID(List(<<2, 1>>)),
     ChatID([int |-> 1]), ChatID(List(<<2, 1>>))}

NoCheck == [filter |-> Nothing, event |-> Nothing, result |-> "none"]

(* ------------------------------- Init ---------------------------------- *)

\* No coroutine has used the storage, none holds a context.
NoTasks ==
    /\ task = [t \in Tasks |-> IdleTask]
    /\ fsm = [t \in Tasks |-> Nothing]
    /\ prev = [op |-> Nothing, read |-> Nothing]

\* No webhook server: no token, no request served, no answer given.
NoWebhook ==
    /\ secret_token = None
    /\ request = Nothing
    /\ response = 0

\* No filter is under check.
NoChecks == check = NoCheck

\* No Bot method has been called.
NoApi == [pc |-> "idle", method |-> None, kwargs |-> {}, name |-> None,
          data |-> {}, attempts |-> 0, status |-> 0, body |-> None,
          outcome |-> "none", value |-> Nothing]

NoRequests == api = NoApi

\* No middleware of middleware.py, no StoryHandler and no TopicManager has
\* been made.
NoModules ==
    /\ mw = Nothing
    /\ story_handler = Nothing
    /\ topic_manager = Nothing

\* Dispatcher.__init__, with an empty store. A category that has no key in
\* self.handlers reads as the empty list (self.handlers.get(category, [])).
Init ==
    /\ handlers = [message |-> <<>>, callback_query |-> <<>>]
    /\ middlewares = <<>>
    /\ fsm_contexts = [u \in Users |-> Nothing]
    /\ store = [k \in Keys |-> Nothing]
    /\ pc = "setup"
    /\ batch_len = 0
    /\ batch_idx = 0
    /\ update = Nothing
    /\ mw_i = 1
    /\ scan_i = 1
    /\ calls = <<>>
    /\ context0 = Nothing
    /\ record0 = Nothing
    /\ exc = "none"
    /\ NoWebhook
    /\ NoTasks
    /\ NoChecks
    /\ NoRequests
    /\ NoModules

(* --------------------------- registration ------------------------------ *)

\* self.handlers[handler_type].append({...}) put otherwise: the entry takes
\* the place of the last registration.
Registered_Replacing(list, entry) ==
    IF list = <<>> THEN <<entry>> ELSE [list EXCEPT ![Len(list)] = entry]

\* self.handlers[handler_type].append({...}): the list of the category was
\* made on the first registration and is kept afterwards ("if not
\* self.handlers.get(handler_type)" is true of an empty list only).
Registered(list, entry) == Append(list, entry)

\* Dispatcher.register_handler: the handler registered is named by its place.
register_handler ==
    /\ pc = "setup"
    /\ Len(handlers.message) < MaxMessageHandlers
    /\ \E filters \in FilterChoices, state \in RequiredStates :
          handlers' = [handlers EXCEPT !.message =
              Registered(@, [handler |-> Len(@) + 1, filters |-> filters, state |-> state])]
    /\ UNCHANGED <<middlewares, fsm_contexts, store, pc, batch_len, batch_idx,
                   update, mw_i, scan_i, calls, context0, record0, exc>>
    /\ UNCHANGED <<webhookVars, storageVars, restVars>>

\* Dispatcher.register_callback_handler
register_callback_handler ==
    /\ pc = "setup"
    /\ Len(handlers.callback_query) < MaxCallbackHandlers
    /\ \E filters \in FilterChoices :
          handlers' = [handlers EXCEPT !.callback_query =
              Registered(@, [handler |-> Len(@) + 1, filters |-> filters])]
    /\ UNCHANGED <<middlewares, fsm_contexts, store, pc, batch_len, batch_idx,
                   update, mw_i, scan_i, calls, context0, record0, exc>>
    /\ UNCHANGED <<webhookVars, storageVars, restVars>>

\* Dispatcher.register_middleware
register_middleware ==
    /\ pc = "setup"
    /\ Len(middlewares) < MaxMiddlewares
    /\ middlewares' = Append(middlewares, Middleware(Len(middlewares) + 1, "custom"))
    /\ UNCHANGED <<handlers, fsm_contexts, store, pc, batch_len, batch_idx,
                   update, mw_i, scan_i, calls, context0, record0, exc>>
    /\ UNCHANGED <<webhookVars, storageVars, restVars>>

(* ----------------------------- start_polling --------------------------- *)

\* start_polling is called: "while True".
StartPolling ==
    /\ pc = "setup"
    /\ pc' = "fetch"
    /\ UNCHANGED <<handlers, middlewares, fsm_contexts, store, batch_len, batch_idx,
                   update, mw_i, scan_i, calls, context0, record0, exc>>
    /\ UNCHANGED <<webhookVars, storageVars, restVars>>

\* "updates = await self.bot.get_updates()": the call raises, or returns a
\* batch. (Bot in bot.py defines no get_updates: on such a bot the call raises
\* AttributeError every time; a bot object that has the method returns the
\* updates the platform holds.)
GetUpdates ==
    /\ pc = "fetch"
    /\ \/ /\ exc' = "get_updates"
          /\ pc' = OnPollingException
          /\ UNCHANGED <<batch_len, batch_idx>>
       \/ /\ \E n \in 0..MaxBatch : batch_len' = n
          /\ batch_idx' = 0
          /\ pc' = "for_update"
          /\ exc' = "none"
    /\ UNCHANGED <<handlers, middlewares, fsm_contexts, store, update, mw_i, scan_i,
                   calls, context0, record0>>
    /\ UNCHANGED <<webhookVars, storageVars, restVars>>

\* A loop that fetches anew as soon as process_update has returned.
Returned_Fetching == "fetch"

\* Where process_update returns to: the for loop of start_polling, or
\* _handle_webhook when a request is being served.
Returned == IF request = Nothing THEN "for_update" ELSE "respond_ok"

\* Where process_update goes once the middlewares are through, and once
\* message sub-dispatch is through.
StageAfterMiddlewares(u) ==
    IF u.message /= Nothing THEN "message"
    ELSE IF u.callback_query /= Nothing THEN "callback_query"
    ELSE Returned

StageAfterMessage(u) ==
    IF u.callback_query /= Nothing THEN "callback_query" ELSE Returned

\* "for update in updates: await self.process_update(Update(**update))": the
\* loop ends, or Update(**update) raises on a malformed update, or
\* process_update is entered.
ForUpdate ==
    /\ pc = "for_update"
    /\ \/ /\ batch_idx = batch_len
          /\ pc' = "sleep"
          /\ UNCHANGED <<batch_idx, update, mw_i, calls, exc>>
       \/ /\ batch_idx < batch_len
          /\ batch_idx' = batch_idx + 1
          /\ exc' = "decode"
          /\ pc' = OnPollingException
          /\ UNCHANGED <<update, mw_i, calls>>
       \/ /\ batch_idx < batch_len
          /\ batch_idx' = batch_idx + 1
          /\ \E u \in Updates : update' = u
          /\ mw_i' = 1
          /\ calls' = <<>>
          /\ pc' = "middlewares"
          /\ UNCHANGED exc
    /\ UNCHANGED <<handlers, middlewares, fsm_contexts, store, batch_len, scan_i, context0, record0>>
    /\ UNCHANGED <<webhookVars, storageVars, restVars>>

\* process_update, "for middleware in self.middlewares: await
\* middleware.process_update(update)": the loop ends, or the next middleware
\* returns, or it raises (and so does process_update).
Middlewares ==
    /\ pc = "middlewares"
    /\ \/ /\ mw_i > Len(middlewares)
          /\ pc' = StageAfterMiddlewares(update)
          /\ scan_i' = 1
          /\ mw_i' = 1
          /\ context0' = IF update.message /= Nothing
                         THEN fsm_contexts[update.message.from_user]
                         ELSE Nothing
          /\ record0' = IF update.message /= Nothing
                        THEN store[Key(update.message.from_user, update.message.chat)]
                        ELSE Nothing
          /\ update' = IF pc' = "for_update" THEN Nothing ELSE update
          /\ calls' = IF pc' = "for_update" THEN <<>> ELSE calls
          /\ UNCHANGED exc
       \/ /\ mw_i <= Len(middlewares)
          /\ \E wrapped \in WrappedOutcomes, declines \in BOOLEAN :
                Middleware_process_update(middlewares[mw_i].kind, wrapped, declines) = "returns"
          /\ calls' = Append(calls, Call("middleware", middlewares[mw_i], FALSE))
          /\ mw_i' = AfterMiddleware(mw_i)
          /\ UNCHANGED <<pc, scan_i, context0, record0, exc, update>>
       \/ /\ mw_i <= Len(middlewares)
          /\ \E wrapped \in WrappedOutcomes, declines \in BOOLEAN :
                Middleware_process_update(middlewares[mw_i].kind, wrapped, declines) = "raises"
          /\ calls' = Append(calls, Call("middleware", middlewares[mw_i], TRUE))
          /\ exc' = "process_update"
          /\ pc' = WhenMiddlewareRaises
          /\ UNCHANGED <<mw_i, scan_i, context0, record0, update>>
    /\ UNCHANGED <<handlers, middlewares, fsm_contexts, store, batch_len, batch_idx>>
    /\ UNCHANGED <<webhookVars, storageVars, restVars>>

\* _process_message, one registration of "for handler_data in handlers" a
\* step: the loop ends, or the registration is skipped by the filter or by
\* the state test, or its handler is awaited and does one of the effects.
ProcessMessageWith(effects) ==
    /\ pc = "message"
    /\ \/ /\ scan_i > Len(handlers.message)
          /\ pc' = StageAfterMessage(update)
          /\ scan_i' = 1
          /\ update' = IF pc' = "for_update" THEN Nothing ELSE update
          /\ calls' = IF pc' = "for_update" THEN <<>> ELSE calls
          /\ context0' = Nothing
          /\ record0' = Nothing
          /\ UNCHANGED <<fsm_contexts, store, exc>>
       \/ /\ scan_i <= Len(handlers.message)
          /\ CheckRaises(handlers.message[scan_i].filters, update.message.text)
          /\ calls' = Append(calls, Call("filter", handlers.message[scan_i].handler, TRUE))
          /\ exc' = "process_update"
          /\ pc' = WhenFilterRaises
          /\ UNCHANGED <<scan_i, fsm_contexts, store, update, context0, record0>>
       \/ /\ scan_i <= Len(handlers.message)
          /\ ~CheckRaises(handlers.message[scan_i].filters, update.message.text)
          /\ \/ ~FiltersPass(handlers.message[scan_i].filters, update.message.text)
             \/ ~StatePasses(handlers.message[scan_i].state, fsm_contexts, update.message)
          /\ scan_i' = scan_i + 1
          /\ UNCHANGED <<pc, fsm_contexts, store, calls, update, context0, record0, exc>>
       \/ /\ scan_i <= Len(handlers.message)
          /\ ~CheckRaises(handlers.message[scan_i].filters, update.message.text)
          /\ FiltersPass(handlers.message[scan_i].filters, update.message.text)
          /\ StatePasses(handlers.message[scan_i].state, fsm_contexts, update.message)
          /\ \E effect \in effects :
                /\ fsm_contexts' = EffectOnContexts(effect, fsm_contexts, store, update.message)
                /\ store' = EffectOnStore(effect, fsm_contexts, store, update.message)
                /\ calls' = Append(calls, Call("message", handlers.message[scan_i].handler,
                                               EffectRaises(effect, store, update.message)))
                /\ scan_i' = AfterMessageHandler(
                                 scan_i, EffectRaises(effect, store, update.message))
                /\ pc' = StageAfterHandler(
                             pc, EffectRaises(effect, store, update.message))
          /\ UNCHANGED <<update, context0, record0, exc>>
    /\ UNCHANGED <<handlers, middlewares, batch_len, batch_idx, mw_i>>
    /\ UNCHANGED <<webhookVars, storageVars, restVars>>

ProcessMessage == ProcessMessageWith(HandlerEffects)

\* The same on a bot whose handlers use the Dispatcher through its methods
\* only.
ProcessMessageOwn == ProcessMessageWith(OwnEffects)

\* _process_callback_query, one registration a step.
ProcessCallbackQuery ==
    /\ pc = "callback_query"
    /\ \/ /\ scan_i > Len(handlers.callback_query)
          /\ pc' = Returned
          /\ scan_i' = 1
          /\ update' = IF pc' = "for_update" THEN Nothing ELSE update
          /\ calls' = IF pc' = "for_update" THEN <<>> ELSE calls
          /\ UNCHANGED exc
       \/ /\ scan_i <= Len(handlers.callback_query)
          /\ CheckRaises(handlers.callback_query[scan_i].filters, update.callback_query.data)
          /\ calls' = Append(calls, Call("filter", handlers.callback_query[scan_i].handler, TRUE))
          /\ exc' = "process_update"
          /\ pc' = WhenFilterRaises
          /\ UNCHANGED <<scan_i, update>>
       \/ /\ scan_i <= Len(handlers.callback_query)
          /\ ~CheckRaises(handlers.callback_query[scan_i].filters, update.callback_query.data)
          /\ ~FiltersPass(handlers.callback_query[scan_i].filters, update.callback_query.data)
          /\ scan_i' = scan_i + 1
          /\ UNCHANGED <<pc, calls, update, exc>>
       \/ /\ scan_i <= Len(handlers.callback_query)
          /\ ~CheckRaises(handlers.callback_query[scan_i].filters, update.callback_query.data)
          /\ FiltersPass(handlers.callback_query[scan_i].filters, update.callback_query.data)
          /\ \E effect \in CallbackEffects :
                /\ calls' = Append(calls, Call("callback_query",
                                               handlers.callback_query[scan_i].handler,
                                               effect.kind = "raise"))
                /\ scan_i' = AfterCallbackHandler(scan_i, effect.kind = "raise")
                /\ pc' = StageAfterHandler(pc, effect.kind = "raise")
          /\ UNCHANGED <<update, exc>>
    /\ UNCHANGED <<handlers, middlewares, fsm_contexts, store, batch_len, batch_idx,
                   mw_i, context0, record0>>
    /\ UNCHANGED <<webhookVars, storageVars, restVars>>

\* "await asyncio.sleep(1)", then the next turn of "while True".
Sleep ==
    /\ pc = "sleep"
    /\ pc' = "fetch"
    /\ batch_len' = 0
    /\ batch_idx' = 0
    /\ update' = Nothing
    /\ mw_i' = 1
    /\ scan_i' = 1
    /\ calls' = <<>>
    /\ context0' = Nothing
    /\ record0' = Nothing
    /\ exc' = "none"
    /\ UNCHANGED <<handlers, middlewares, fsm_contexts, store>>
    /\ UNCHANGED <<webhookVars, storageVars, restVars>>

(* ------------------------------- webhook ------------------------------- *)

\* WebhookServer.start: the server listens.
StartWebhook ==
    /\ pc = "setup"
    /\ pc' = "serve"
    /\ UNCHANGED <<handlers, middlewares, fsm_contexts, store, batch_len, batch_idx,
                   update, mw_i, scan_i, calls, context0, record0, exc>>
    /\ UNCHANGED <<webhookVars, storageVars, restVars>>

\* A POST /webhook arrives and _handle_webhook is entered.
Request ==
    /\ pc = "serve"
    /\ \E r \in Requests : request' = r
    /\ response' = 0
    /\ update' = Nothing
    /\ calls' = <<>>
    /\ exc' = "none"
    /\ pc' = "handle_webhook"
    /\ UNCHANGED <<handlers, middlewares, fsm_contexts, store, batch_len, batch_idx,
                   mw_i, scan_i, context0, record0>>
    /\ UNCHANGED <<secret_token, storageVars, restVars>>

\* A check that lets a request without the header through.
SecretAccepted_MissingHeaderPasses(token, header) ==
    ~(Truthy(token) /\ header /= None /\ header /= token)

\* "if self.secret_token: if request.headers.get(...) != self.secret_token:
\* return 403": TRUE when the request goes on to the try block.
SecretAccepted(token, header) ==
    ~(Truthy(token) /\ header /= token)

\* _handle_webhook up to its call of process_update: the secret check answers
\* 403, or request.json() / Update(**data) raises and the except clause
\* answers 500, or process_update is entered with the update.
handle_webhook ==
    /\ pc = "handle_webhook"
    /\ \/ /\ ~SecretAccepted(secret_token, request.header)
          /\ response' = 403
          /\ pc' = "serve"
          /\ UNCHANGED <<update, mw_i, calls, exc>>
       \/ /\ SecretAccepted(secret_token, request.header)
          /\ request.body = "malformed"
          /\ response' = 500
          /\ exc' = "decode"
          /\ pc' = "serve"
          /\ UNCHANGED <<update, mw_i, calls>>
       \/ /\ SecretAccepted(secret_token, request.header)
          /\ request.body = "update"
          /\ \E u \in Updates : update' = u
          /\ mw_i' = 1
          /\ calls' = <<>>
          /\ pc' = "middlewares"
          /\ UNCHANGED <<response, exc>>
    /\ UNCHANGED <<handlers, middlewares, fsm_contexts, store, batch_len, batch_idx,
                   scan_i, context0, record0>>
    /\ UNCHANGED <<secret_token, request, storageVars, restVars>>

\* _handle_webhook after process_update: it returned and the answer is 200,
\* or it raised and the except clause answers 500.
handle_webhook_return ==
    /\ pc \in {"respond_ok", "respond_error"}
    /\ response' = IF pc = "respond_ok" THEN 200 ELSE 500
    /\ pc' = "serve"
    /\ UNCHANGED <<handlers, middlewares, fsm_contexts, store, batch_len, batch_idx,
                   update, mw_i, scan_i, calls, context0, record0, exc>>
    /\ UNCHANGED <<secret_token, request, storageVars, restVars>>

(* --------------------------- a filter check ---------------------------- *)

\* await filters.check(event), for a built-in filter.
filter_check ==
    /\ check.result = "none"
    /\ check.filter /= Nothing
    /\ check' = [check EXCEPT !.result = Filter_check(check.filter, check.event)]
    /\ UNCHANGED <<dispatcherVars, store, webhookVars, storageVars, api, moduleVars>>

(* ---------------------- middlewares of middleware.py ------------------- *)

\* Latest date of an event, and how many events a ThrottlingMiddleware is
\* followed through after it passed them on.
MaxDate == 3

MaxPassed == 3

\* The events a middleware is given: an Update, which declares neither
\* from_user nor date, and messages, which have a date and an optional sender.
Senders == {1, 2, 3}

MiddlewareEvents ==
    {[update_id |-> 1]}
        \cup {[from_user |-> u, date |-> d] :
                  u \in {Nothing} \cup {[id |-> i] : i \in Senders}, d \in 0..MaxDate}

\* AuthMiddleware(handler, allowed_users): "self.allowed_users =
\* allowed_users or set()"; the argument is left out (Nothing) or is a set.
AllowedUsersArgs == {Nothing} \cup {[set |-> s] : s \in SUBSET Senders}

AuthMiddleware(allowed_users) ==
    [allowed_users |-> IF allowed_users = Nothing THEN {} ELSE allowed_users.set,
     given |-> allowed_users]

\* AuthMiddleware.process_update: "raised" on an event without the attribute
\* from_user, "returned" when it returns without awaiting its handler,
\* "invoked" when it awaits super().process_update(update).
AuthMiddleware_process_update(self, event) ==
    IF ~hasattr(event, "from_user") THEN "raised"
    ELSE IF Falsy(event.from_user) THEN "returned"
    ELSE IF self.allowed_users /= {} /\ event.from_user.id \notin self.allowed_users
         THEN "returned"
    ELSE "invoked"

\* An AuthMiddleware is given an event.
Auth_process_update ==
    /\ mw /= Nothing
    /\ "allowed_users" \in DOMAIN mw.self
    /\ \E event \in MiddlewareEvents :
          mw' = [mw EXCEPT !.event = event,
                           !.result = AuthMiddleware_process_update(mw.self, event)]
    /\ UNCHANGED <<dispatcherVars, store, webhookVars, storageVars, check, api,
                   story_handler, topic_manager>>

\* ThrottlingMiddleware(handler, rate_limit)
RateLimits == {0, 1, 2}

ThrottlingMiddleware(rate_limit) ==
    [rate_limit |-> rate_limit, last_update |-> <<>>]

\* 'str(update.from_user.id) if update.from_user else "unknown"'
ThrottlingKey(event) ==
    IF Falsy(event.from_user) THEN <<"unknown">> ELSE str(event.from_user.id)

\* A throttle that lets an update through one second early.
Throttled_Early(self, user_id, current_time) ==
    /\ user_id \in DOMAIN self.last_update
    /\ current_time - self.last_update[user_id] < self.rate_limit - 1

\* "if user_id in self.last_update: time_diff = current_time -
\* self.last_update[user_id]; if time_diff < self.rate_limit: return"
Throttled(self, user_id, current_time) ==
    /\ user_id \in DOMAIN self.last_update
    /\ current_time - self.last_update[user_id] < self.rate_limit

\* ThrottlingMiddleware.process_update, its outcome ...
ThrottlingMiddleware_process_update(self, event) ==
    IF ~hasattr(event, "from_user") \/ ~hasattr(event, "date") THEN "raised"
    ELSE IF Throttled(self, ThrottlingKey(event), event.date) THEN "returned"
    ELSE "invoked"

\* ... and the middleware after it: "self.last_update[user_id] =
\* current_time" when the update is passed on.
ThrottlingMiddleware_after(self, event) ==
    IF ThrottlingMiddleware_process_update(self, event) = "invoked"
    THEN [self EXCEPT !.last_update =
             [k \in DOMAIN @ \cup {ThrottlingKey(event)} |->
                 IF k = ThrottlingKey(event) THEN event.date ELSE @[k]]]
    ELSE self

\* A ThrottlingMiddleware is given an event; passed is the history of the
\* events it passed on to its handler.
Throttling_process_update ==
    /\ mw /= Nothing
    /\ "rate_limit" \in DOMAIN mw.self
    /\ Len(mw.passed) < MaxPassed
    /\ \E event \in MiddlewareEvents :
          mw' = [self |-> ThrottlingMiddleware_after(mw.self, event),
                 event |-> event,
                 result |-> ThrottlingMiddleware_process_update(mw.self, event),
                 passed |-> IF ThrottlingMiddleware_process_update(mw.self, event) = "invoked"
                            THEN Append(mw.passed, event)
                            ELSE mw.passed]
    /\ UNCHANGED <<dispatcherVars, store, webhookVars, storageVars, check, api,
                   story_handler, topic_manager>>

(* ----------------------------- StoryHandler ---------------------------- *)

\* How many stories are created, and how far the clock is followed.
MaxStories == 3

MaxClock == 3

StoryUsers == {1, 2}

\* The media types create_story is called with.
StoryMediaTypes == {"photo", "text"}

\* StoryHandler(max_stories_per_user, story_duration, allowed_media_types):
\* "allowed_media_types or ['photo', 'video', 'animation']"; the argument is
\* left out (Nothing) or is a list, here the set of its elements.
StoryHandler(max_stories_per_user, story_duration, allowed_media_types) ==
    [max_stories_per_user |-> max_stories_per_user,
     story_duration |-> story_duration,
     allowed_media_types |->
         IF allowed_media_types = Nothing \/ allowed_media_types.list = {}
         THEN {"photo", "video", "animation"}
         ELSE allowed_media_types.list,
     story_cache |-> <<>>]

is_allowed_media_type(self, media_type) == media_type \in self.allowed_media_types

\* The stories of the list that have not expired: "s.expires_at >
\* datetime.now()".
Unexpired(stories, now) == SelectSeq(stories, LAMBDA s : s.expires_at > now)

\* get_user_stories: self.story_cache.get(user_id, []), the unexpired ones.
get_user_stories(self, user_id, now) ==
    IF user_id \in DOMAIN self.story_cache
    THEN Unexpired(self.story_cache[user_id], now)
    ELSE <<>>

\* A limit test that lets one more story in.
AtStoryLimit_Above(self, user_stories) ==
    Len(user_stories) > self.max_stories_per_user

\* "if len(user_stories) >= self.max_stories_per_user"
AtStoryLimit(self, user_stories) ==
    Len(user_stories) >= self.max_stories_per_user

\* Story(user_id=..., media_type=..., created_at=datetime.now(), expires_at=
\* datetime.now() + timedelta(seconds=self.story_duration)), its id a fresh
\* uuid.
Story(id, user_id, media_type, now, story_duration) ==
    [id |-> id, user_id |-> user_id, media_type |-> media_type,
     created_at |-> now, expires_at |-> now + story_duration]

\* create_story: None, or the story made.
create_story_result(self, id, user_id, media_type, now) ==
    IF ~is_allowed_media_type(self, media_type) THEN Nothing
    ELSE IF AtStoryLimit(self, get_user_stories(self, user_id, now)) THEN Nothing
    ELSE Story(id, user_id, media_type, now, self.story_duration)

\* story_cache with the story appended to the list of the user, which is
\* made when the user has none.
story_cache_append(cache, user_id, story) ==
    [u \in DOMAIN cache \cup {user_id} |->
        IF u = user_id
        THEN (IF u \in DOMAIN cache THEN Append(cache[u], story) ELSE <<story>>)
        ELSE cache[u]]

\* The handler and its surroundings: the clock, the uuids given out, and the
\* call made last with the cache as it was before the call.
StoryState(self, now, next_id, op, result, before) ==
    [self |-> self, now |-> now, next_id |-> next_id, op |-> op,
     result |-> result, before |-> before]

\* await handler.create_story(user_id, media_type, media_data)
create_story ==
    /\ story_handler /= Nothing
    /\ story_handler.next_id <= MaxStories
    /\ \E user_id \in StoryUsers, media_type \in StoryMediaTypes :
          LET self == story_handler.self
              story == create_story_result(self, story_handler.next_id, user_id,
                                           media_type, story_handler.now)
          IN  story_handler' =
                  StoryState(
                      IF story = Nothing THEN self
                      ELSE [self EXCEPT !.story_cache =
                               story_cache_append(@, user_id, story)],
                      story_handler.now,
                      story_handler.next_id + 1,
                      [name |-> "create_story", user_id |-> user_id,
                       media_type |-> media_type, story_id |-> 0],
                      story,
                      self.story_cache)
    /\ UNCHANGED <<dispatcherVars, store, webhookVars, storageVars, check, api,
                   mw, topic_manager>>

\* delete_story: True when the user has a list in the cache, which is left
\* without the stories of the id; False otherwise.
delete_story_result(self, user_id, story_id) ==
    [returned |-> user_id \in DOMAIN self.story_cache]

delete_story_cache(cache, user_id, story_id) ==
    IF user_id \in DOMAIN cache
    THEN [cache EXCEPT ![user_id] = SelectSeq(@, LAMBDA s : s.id /= story_id)]
    ELSE cache

\* await handler.delete_story(user_id, story_id)
delete_story ==
    /\ story_handler /= Nothing
    /\ \E user_id \in StoryUsers, story_id \in 1..MaxStories :
          story_handler' =
              [story_handler EXCEPT
                  !.self.story_cache = delete_story_cache(@, user_id, story_id),
                  !.op = [name |-> "delete_story", user_id |-> user_id,
                          media_type |-> None, story_id |-> story_id],
                  !.result = delete_story_result(story_handler.self, user_id, story_id),
                  !.before = story_handler.self.story_cache]
    /\ UNCHANGED <<dispatcherVars, store, webhookVars, storageVars, check, api,
                   mw, topic_manager>>

\* cleanup_expired_stories: every list keeps its unexpired stories, and a
\* user whose list is left empty loses the entry.
cleanup_cache(cache, now) ==
    [u \in {v \in DOMAIN cache : Unexpired(cache[v], now) /= <<>>} |->
        Unexpired(cache[u], now)]

cleanup_expired_stories ==
    /\ story_handler /= Nothing
    /\ story_handler' =
           [story_handler EXCEPT
               !.self.story_cache = cleanup_cache(@, story_handler.now),
               !.op = [name |-> "cleanup_expired_stories", user_id |-> 0,
                       media_type |-> None, story_id |-> 0],
               !.result = Nothing,
               !.before = story_handler.self.story_cache]
    /\ UNCHANGED <<dispatcherVars, store, webhookVars, storageVars, check, api,
                   mw, topic_manager>>

\* Time passes: datetime.now() is later at the next call.
StoryTick ==
    /\ story_handler /= Nothing
    /\ story_handler.now < MaxClock
    /\ story_handler' = [story_handler EXCEPT !.now = @ + 1]
    /\ UNCHANGED <<dispatcherVars, store, webhookVars, storageVars, check, api,
                   mw, topic_manager>>

(* ----------------------------- TopicManager ---------------------------- *)

\* The message_thread_id values the platform gives to topics: 1..MaxTopics.
MaxTopics == 2

TopicChats == {1}

TopicNames == {"a", "b"}

\* TopicManager(max_topics_per_group)
TopicManager(max_topics_per_group) ==
    [max_topics_per_group |-> max_topics_per_group, topic_cache |-> <<>>]

\* What a call of the bot object does: it raises, or returns a false value
\* (None, False, an empty dict), a dict that lacks message_thread_id, or what
\* the platform returns on success.
BotOutcomes == {"raises", "falsy", "incomplete", "ok"}

\* "if result:" on what the bot call returned.
Truth(outcome) == outcome \in {"incomplete", "ok"}

\* A cached topic: the dict create_topic builds, or the one the platform
\* returned to get_forum_topics; is_closed is a key close_topic adds.
Topic(message_thread_id, name) ==
    [message_thread_id |-> message_thread_id, name |-> name, is_closed |-> "absent"]

\* n topics are cached for the chat.
TopicCount(cache, chat_id) ==
    IF chat_id \in DOMAIN cache THEN Cardinality(DOMAIN cache[chat_id]) ELSE 0

Cached(cache, chat_id, message_thread_id) ==
    chat_id \in DOMAIN cache /\ message_thread_id \in DOMAIN cache[chat_id]

\* "if chat_id not in self.topic_cache: self.topic_cache[chat_id] = {}" and
\* "self.topic_cache[chat_id][message_thread_id] = topic"
topic_cache_put(cache, chat_id, topic) ==
    [c \in DOMAIN cache \cup {chat_id} |->
        IF c /= chat_id THEN cache[c]
        ELSE [i \in (IF c \in DOMAIN cache THEN DOMAIN cache[c] ELSE {})
                       \cup {topic.message_thread_id} |->
                 IF i = topic.message_thread_id THEN topic ELSE cache[c][i]]]

\* create_topic: what it returns (None, or the topic) for what get_chat did
\* ("raises", a chat that is no forum, a forum) and what create_forum_topic
\* did.
create_topic_result(self, chat_id, name, chat, outcome, message_thread_id) ==
    IF chat /= "forum" THEN Nothing
    ELSE IF chat_id \in DOMAIN self.topic_cache
            /\ TopicCount(self.topic_cache, chat_id) >= self.max_topics_per_group
         THEN Nothing
    ELSE IF outcome = "raises" THEN Nothing
    ELSE IF Truth(outcome) /\ outcome = "ok" THEN Topic(message_thread_id, name)
    ELSE Nothing

\* The manager, and the call made last: what the bot did in it, what it
\* returned, and the cache as it was before it.
TopicState(self, op, outcome, result, before) ==
    [self |-> self, op |-> op, outcome |-> outcome, result |-> result,
     before |-> before]

TopicOp(name, chat_id, message_thread_id, chat) ==
    [name |-> name, chat_id |-> chat_id, message_thread_id |-> message_thread_id,
     chat |-> chat]

\* await manager.create_topic(bot, chat_id, name)
create_topic ==
    /\ topic_manager /= Nothing
    /\ \E chat_id \in TopicChats, name \in TopicNames,
          chat \in {"raises", "not_forum", "forum"}, outcome \in BotOutcomes,
          message_thread_id \in 1..MaxTopics :
          LET self == topic_manager.self
              topic == create_topic_result(self, chat_id, name, chat, outcome,
                                           message_thread_id)
          IN  topic_manager' =
                  TopicState(
                      IF topic = Nothing THEN self
                      ELSE [self EXCEPT !.topic_cache = topic_cache_put(@, chat_id, topic)],
                      TopicOp("create_topic", chat_id, message_thread_id, chat),
                      outcome, topic, self.topic_cache)
    /\ UNCHANGED <<dispatcherVars, store, webhookVars, storageVars, check, api,
                   mw, story_handler>>

\* The cache after edit_topic, close_topic, reopen_topic or delete_topic got
\* a true result from the bot: the topic, when it is cached, gets the name,
\* gets is_closed, or is taken out.
topic_cache_after(cache, name, chat_id, message_thread_id, new_name) ==
    IF ~Cached(cache, chat_id, message_thread_id) THEN cache
    ELSE CASE name = "edit_topic" ->
                [cache EXCEPT ![chat_id][message_thread_id].name = new_name]
           [] name = "close_topic" ->
                [cache EXCEPT ![chat_id][message_thread_id].is_closed = "True"]
           [] name = "reopen_topic" ->
                [cache EXCEPT ![chat_id][message_thread_id].is_closed = "False"]
           [] name = "delete_topic" ->
                [cache EXCEPT ![chat_id] =
                    [i \in DOMAIN @ \ {message_thread_id} |-> @[i]]]

\* await manager.edit_topic / close_topic / reopen_topic / delete_topic(bot,
\* chat_id, message_thread_id): True when the bot call returned a true
\* value, False when it returned a false one or raised.
change_topic ==
    /\ topic_manager /= Nothing
    /\ \E name \in {"edit_topic", "close_topic", "reopen_topic", "delete_topic"},
          chat_id \in TopicChats, message_thread_id \in 1..MaxTopics,
          new_name \in TopicNames, outcome \in BotOutcomes \ {"incomplete"} :
          LET self == topic_manager.self
          IN  topic_manager' =
                  TopicState(
                      IF Truth(outcome)
                      THEN [self EXCEPT !.topic_cache =
                               topic_cache_after(@, name, chat_id, message_thread_id,
                                                 new_name)]
                      ELSE self,
                      TopicOp(name, chat_id, message_thread_id, "none"),
                      outcome, [returned |-> Truth(outcome)], self.topic_cache)
    /\ UNCHANGED <<dispatcherVars, store, webhookVars, storageVars, check, api,
                   mw, story_handler>>

\* The cache after get_forum_topics got the topics of the ids from the bot:
\* "for topic in result['topics']: self.topic_cache[chat_id][...] = topic".
RECURSIVE topic_cache_put_all(_, _, _)
topic_cache_put_all(cache, chat_id, ids) ==
    IF ids = {}
    THEN [c \in DOMAIN cache \cup {chat_id} |->
             IF c \in DOMAIN cache THEN cache[c] ELSE <<>>]
    ELSE LET i == CHOOSE j \in ids : \A k \in ids : j <= k
         IN  topic_cache_put_all(topic_cache_put(cache, chat_id, Topic(i, "a")),
                                 chat_id, ids \ {i})

\* await manager.get_forum_topics(bot, chat_id): the bot raises, returns a
\* false value, or returns the topics the forum has; it returns the topics,
\* or [] when the call failed.
get_forum_topics ==
    /\ topic_manager /= Nothing
    /\ \E chat_id \in TopicChats, outcome \in BotOutcomes \ {"incomplete"},
          ids \in SUBSET (1..MaxTopics) :
          LET self == topic_manager.self
          IN  topic_manager' =
                  TopicState(
                      IF Truth(outcome)
                      THEN [self EXCEPT !.topic_cache =
                               topic_cache_put_all(@, chat_id, ids)]
                      ELSE self,
                      TopicOp("get_forum_topics", chat_id, 0, "none"),
                      outcome, [topics |-> IF Truth(outcome) THEN ids ELSE {}],
                      self.topic_cache)
    /\ UNCHANGED <<dispatcherVars, store, webhookVars, storageVars, check, api,
                   mw, story_handler>>

(* ------------------------------- the Bot ------------------------------- *)

\* The Bot methods called: one that returns what _request returned, two that
\* return response["result"].
BotMethods == {"get_me", "send_message", "answer_callback_query"}

\* The status of the HTTP response: success, or an error of the client or of
\* the server.
Statuses == {200, 400, 401, 403, 404, 409, 429, 500, 502}

\* The body of the response: {"ok": true, "result": ...}, {"ok": false,
\* "error_code": ..., "description": ...}, or what is not JSON.
ResponseBodies == {"ok", "not_ok", "malformed"}

\* response.raise_for_status() raises: the status is 400 or above.
raise_for_status(status) == status >= 400

\* Bot._request once the response is there: raise_for_status(), then "return
\* await response.json()". It returns the decoded body whatever its "ok".
request_outcome(status, body) ==
    IF raise_for_status(status) THEN "raised"
    ELSE IF body = "malformed" THEN "raised"
    ELSE "returned"

\* The Bot method once _request is through: get_me returns the body as it
\* is; the others read response["result"], which raises KeyError on a body
\* that has none.
method_outcome(method, status, body) ==
    IF request_outcome(status, body) = "raised" THEN "raised"
    ELSE IF method = "get_me" THEN "returned"
    ELSE IF body = "not_ok" THEN "raised"
    ELSE "returned"

\* The keyword arguments a caller may add to the ones the method names: none,
\* or parse_mode; answer_callback_query is also called with its text.
BotKwargs == {{}, {"parse_mode"}, {"text"}}

\* The vendor method a Bot method asks for: the first argument of its
\* self._request(...) call.
method_name(method) ==
    CASE method = "get_me" -> "getMe"
      [] method = "send_message" -> "sendMessage"
      [] method = "answer_callback_query" -> "answerCallbackQuery"

\* The fields of the data a Bot method hands to _request: none for get_me,
\* {"chat_id": ..., "text": ..., **kwargs} for send_message, the query id, the
\* text if there is one and the kwargs for answer_callback_query.
request_data(method, kwargs) ==
    CASE method = "get_me" -> {}
      [] method = "send_message" -> {"chat_id", "text"} \cup kwargs
      [] method = "answer_callback_query" -> {"callback_query_id"} \cup kwargs

\* response.json() of a body that is JSON: the vendor's envelope.
json(body) ==
    IF body = "ok" THEN [ok |-> TRUE, result |-> [id |-> 1]]
    ELSE [ok |-> FALSE, error_code |-> 400]

\* What a Bot method that does not raise returns: get_me "return await
\* self._request("getMe")", the envelope; the others what they make of
\* response["result"].
method_value(method, body) ==
    IF method = "get_me" THEN json(body) ELSE json(body).result

\* A caller awaits a Bot method, which awaits self._request(...).
Bot_call ==
    /\ api.pc \in {"idle", "done"}
    /\ \E method \in BotMethods, kwargs \in BotKwargs :
          /\ method = "get_me" => kwargs = {}
          /\ method = "send_message" => "text" \notin kwargs
          /\ api' = [NoApi EXCEPT !.pc = "post", !.method = method,
                                  !.kwargs = kwargs]
    /\ UNCHANGED <<dispatcherVars, store, webhookVars, storageVars, check, moduleVars>>

\* "async with self._session.post(url, ...) as response": the request is
\* sent; the connection fails and post raises, or a response arrives.
Bot_request_post ==
    /\ api.pc = "post"
    /\ \E sent \in {[api EXCEPT !.attempts = @ + 1,
                                 !.name = method_name(api.method),
                                 !.data = request_data(api.method, api.kwargs)]} :
          \/ api' = [sent EXCEPT !.pc = "done", !.outcome = "raised"]
          \/ \E status \in Statuses, body \in ResponseBodies :
                api' = [sent EXCEPT !.pc = "response", !.status = status,
                                    !.body = body]
    /\ UNCHANGED <<dispatcherVars, store, webhookVars, storageVars, check, moduleVars>>

\* The rest of _request and of the method: the caller has its result, or the
\* exception.
Bot_request_return ==
    /\ api.pc = "response"
    /\ \E outcome \in {method_outcome(api.method, api.status, api.body)} :
          api' = [api EXCEPT !.pc = "done",
                             !.outcome = outcome,
                             !.value = IF outcome = "returned"
                                       THEN method_value(api.method, api.body)
                                       ELSE Nothing]
    /\ UNCHANGED <<dispatcherVars, store, webhookVars, storageVars, check, moduleVars>>

(* ----------------------- coroutines on the storage --------------------- *)

\* The history of the coroutine that runs alone: the call it made before the
\* one it enters now.
Remember(t) ==
    IF t \in Sequential
    THEN prev' = [op |-> task[t].op, read |-> task[t].read]
    ELSE UNCHANGED prev

\* Coroutine t calls storage.set_state(user_id, chat_id, state), which runs
\* up to its "await self.redis.get(key)".
SetStateFor(t, pairs) ==
    /\ task[t].pc = "idle"
    /\ \E u \in {p[1] : p \in pairs}, c \in {p[2] : p \in pairs}, state \in StateArgs :
          /\ <<u, c>> \in pairs
          /\ task' = [task EXCEPT ![t] =
                 [pc |-> "write", op |-> Op("set_state", u, c, state, EmptyData, EmptyData),
                  read |-> store[Key(u, c)], value |-> Nothing, before |-> Nothing]]
    /\ Remember(t)
    /\ UNCHANGED <<store, fsm, dispatcherVars, webhookVars, restVars>>

\* Coroutine t calls storage.set_data(user_id, chat_id, data), which runs up
\* to its "await self.redis.get(key)".
SetDataFor(t, pairs) ==
    /\ task[t].pc = "idle"
    /\ \E u \in {p[1] : p \in pairs}, c \in {p[2] : p \in pairs}, data \in SetDataArgs :
          /\ <<u, c>> \in pairs
          /\ task' = [task EXCEPT ![t] =
                 [pc |-> "write", op |-> Op("set_data", u, c, None, data, EmptyData),
                  read |-> store[Key(u, c)], value |-> Nothing, before |-> Nothing]]
    /\ Remember(t)
    /\ UNCHANGED <<store, fsm, dispatcherVars, webhookVars, restVars>>

\* The "await self.redis.set(key, ...)" of the set_state or set_data that
\* coroutine t is in, and the return of the call.
RedisSet(t) ==
    /\ task[t].pc = "write"
    /\ LET key == Key(task[t].op.user_id, task[t].op.chat_id)
           text == json_dumps(Written(task[t].op, task[t].read, store[key]))
       IN  IF text = Raised
           THEN /\ task' = [task EXCEPT ![t].pc = "idle", ![t].value = Raised]
                /\ UNCHANGED store
           ELSE /\ task' = [task EXCEPT ![t].pc = "idle"]
                /\ store' = [store EXCEPT ![key] = json_loads(text)]
    /\ UNCHANGED <<fsm, prev, dispatcherVars, webhookVars, restVars>>

\* Coroutine t calls storage.clear(user_id, chat_id).
ClearFor(t, pairs) ==
    /\ task[t].pc = "idle"
    /\ \E u \in {p[1] : p \in pairs}, c \in {p[2] : p \in pairs} :
          /\ <<u, c>> \in pairs
          /\ store' = clear(store, u, c)
          /\ task' = [task EXCEPT ![t] =
                 [pc |-> "idle", op |-> Op("clear", u, c, None, EmptyData, EmptyData),
                  read |-> store[Key(u, c)], value |-> Nothing, before |-> Nothing]]
    /\ Remember(t)
    /\ UNCHANGED <<fsm, dispatcherVars, webhookVars, restVars>>

\* The calls of a coroutine on the conversations it works on.
SetState(t) == SetStateFor(t, Users \X ChatsOf(t))

SetData(t) == SetDataFor(t, Users \X ChatsOf(t))

Clear(t) == ClearFor(t, Users \X ChatsOf(t))

\* The calls of a coroutine that works on the conversations whose ids share
\* digits.
SetStateOfAny(t) == SetStateFor(t, IsolationPairs)

SetDataOfAny(t) == SetDataFor(t, IsolationPairs)

ClearOfAny(t) == ClearFor(t, IsolationPairs)

\* Coroutine t calls storage.get_state(user_id, chat_id).
GetState(t) ==
    /\ task[t].pc = "idle"
    /\ \E u \in Users, c \in ChatsOf(t) :
          task' = [task EXCEPT ![t] =
              [pc |-> "idle", op |-> Op("get_state", u, c, None, EmptyData, EmptyData),
               read |-> store[Key(u, c)], value |-> get_state(store, u, c),
               before |-> Nothing]]
    /\ Remember(t)
    /\ UNCHANGED <<store, fsm, dispatcherVars, webhookVars, restVars>>

\* Coroutine t makes a context, FSMContext(storage, user_id, chat_id).
NewContext(t) ==
    /\ task[t].pc = "idle"
    /\ \E u \in Users, c \in ChatsOf(t) :
          /\ fsm' = [fsm EXCEPT ![t] = FSMContext(u, c, None, EmptyData)]
          /\ task' = [task EXCEPT ![t] =
                 [pc |-> "idle", op |-> Op("FSMContext", u, c, None, EmptyData, EmptyData),
                  read |-> Nothing, value |-> Nothing, before |-> fsm[t]]]
    /\ Remember(t)
    /\ UNCHANGED <<store, dispatcherVars, webhookVars, restVars>>

\* Coroutine t calls set_state(state) on its context: "self.state = state",
\* then storage.set_state up to its redis.get.
ContextSetState(t) ==
    /\ task[t].pc = "idle"
    /\ fsm[t] /= Nothing
    /\ \E state \in StateArgs :
          /\ fsm' = [fsm EXCEPT ![t] = FSMContext_set_state(@, state)]
          /\ task' = [task EXCEPT ![t] =
                 [pc |-> "write",
                  op |-> Op("FSMContext.set_state", fsm[t].user_id, fsm[t].chat_id,
                            state, EmptyData, EmptyData),
                  read |-> store[Key(fsm[t].user_id, fsm[t].chat_id)],
                  value |-> Nothing, before |-> fsm[t]]]
    /\ Remember(t)
    /\ UNCHANGED <<store, dispatcherVars, webhookVars, restVars>>

\* Coroutine t calls update_data(**kwargs) on its context:
\* "self.data.update(kwargs)", then storage.set_data(..., self.data) up to its
\* redis.get.
UpdateDataWith(t, arguments) ==
    /\ task[t].pc = "idle"
    /\ fsm[t] /= Nothing
    /\ \E kwargs \in arguments :
          /\ fsm' = [fsm EXCEPT ![t] = FSMContext_update_data(@, kwargs)]
          /\ task' = [task EXCEPT ![t] =
                 [pc |-> "write",
                  op |-> Op("update_data", fsm[t].user_id, fsm[t].chat_id, None,
                            FSMContext_update_data(fsm[t], kwargs).data, kwargs),
                  read |-> store[Key(fsm[t].user_id, fsm[t].chat_id)],
                  value |-> Nothing, before |-> fsm[t]]]
    /\ Remember(t)
    /\ UNCHANGED <<store, dispatcherVars, webhookVars, restVars>>

\* Coroutine t calls set(key, value) on its context.
SetWith(t, arguments) ==
    /\ task[t].pc = "idle"
    /\ fsm[t] /= Nothing
    /\ \E kwargs \in arguments :
          /\ fsm' = [fsm EXCEPT ![t] = FSMContext_set(@, kwargs)]
          /\ task' = [task EXCEPT ![t] =
                 [pc |-> "write",
                  op |-> Op("set", fsm[t].user_id, fsm[t].chat_id, None,
                            FSMContext_set(fsm[t], kwargs).data, kwargs),
                  read |-> store[Key(fsm[t].user_id, fsm[t].chat_id)],
                  value |-> Nothing, before |-> fsm[t]]]
    /\ Remember(t)
    /\ UNCHANGED <<store, dispatcherVars, webhookVars, restVars>>

UpdateData(t) == UpdateDataWith(t, Kwargs)

Set(t) == SetWith(t, Kwargs)

\* The same with values of any type.
UpdateAnyData(t) == UpdateDataWith(t, AnyKwargs)

SetAny(t) == SetWith(t, AnyKwargs)

\* Coroutine t makes a context for a conversation with the state and the
\* data the store holds for it, FSMContext(storage, user_id, chat_id, state,
\* data), or with neither when the store holds no record.
LoadContext(t) ==
    /\ task[t].pc = "idle"
    /\ \E u \in Users, c \in ChatsOf(t) :
          /\ fsm' = [fsm EXCEPT ![t] =
                 IF store[Key(u, c)] = Nothing
                 THEN FSMContext(u, c, None, EmptyData)
                 ELSE FSMContext(u, c, store[Key(u, c)].state, store[Key(u, c)].data)]
          /\ task' = [task EXCEPT ![t] =
                 [pc |-> "idle", op |-> Op("FSMContext", u, c, None, EmptyData, EmptyData),
                  read |-> store[Key(u, c)], value |-> Nothing, before |-> fsm[t]]]
    /\ Remember(t)
    /\ UNCHANGED <<store, dispatcherVars, webhookVars, restVars>>

\* Coroutine t calls get_data() on its context.
GetData(t) ==
    /\ task[t].pc = "idle"
    /\ fsm[t] /= Nothing
    /\ task' = [task EXCEPT ![t] =
           [pc |-> "idle",
            op |-> Op("get_data", fsm[t].user_id, fsm[t].chat_id, None,
                      EmptyData, EmptyData),
            read |-> Nothing, value |-> FSMContext_get_data(fsm[t]), before |-> fsm[t]]]
    /\ Remember(t)
    /\ UNCHANGED <<store, fsm, dispatcherVars, webhookVars, restVars>>

\* Coroutine t calls clear() on its context: the two assignments, then
\* storage.clear.
ContextClear(t) ==
    /\ task[t].pc = "idle"
    /\ fsm[t] /= Nothing
    /\ fsm' = [fsm EXCEPT ![t] = FSMContext_clear(@)]
    /\ store' = clear(store, fsm[t].user_id, fsm[t].chat_id)
    /\ task' = [task EXCEPT ![t] =
           [pc |-> "idle",
            op |-> Op("FSMContext.clear", fsm[t].user_id, fsm[t].chat_id, None,
                      EmptyData, EmptyData),
            read |-> store[Key(fsm[t].user_id, fsm[t].chat_id)],
            value |-> Nothing, before |-> fsm[t]]]
    /\ Remember(t)
    /\ UNCHANGED <<dispatcherVars, webhookVars, restVars>>

\* Coroutine t calls finish() on its context.
Finish(t) ==
    /\ task[t].pc = "idle"
    /\ fsm[t] /= Nothing
    /\ fsm' = [fsm EXCEPT ![t] = FSMContext_finish(@)]
    /\ store' = clear(store, fsm[t].user_id, fsm[t].chat_id)
    /\ task' = [task EXCEPT ![t] =
           [pc |-> "idle",
            op |-> Op("finish", fsm[t].user_id, fsm[t].chat_id, None,
                      EmptyData, EmptyData),
            read |-> store[Key(fsm[t].user_id, fsm[t].chat_id)],
            value |-> Nothing, before |-> fsm[t]]]
    /\ Remember(t)
    /\ UNCHANGED <<dispatcherVars, webhookVars, restVars>>

(* ---------------------------- specifications --------------------------- *)

Next ==
    \/ register_handler
    \/ register_callback_handler
    \/ register_middleware
    \/ StartPolling
    \/ GetUpdates
    \/ ForUpdate
    \/ Middlewares
    \/ ProcessMessage
    \/ ProcessCallbackQuery
    \/ Sleep

Spec == Init /\ [][Next]_vars

\* One step of start_polling.
PollingStep ==
    \/ GetUpdates
    \/ ForUpdate
    \/ Middlewares
    \/ ProcessMessage
    \/ ProcessCallbackQuery
    \/ Sleep

\* A bot whose author uses the Dispatcher through its methods only:
\* registration and polling, with handlers that never write
\* Dispatcher.fsm_contexts.
MethodsNext ==
    \/ register_handler
    \/ register_callback_handler
    \/ register_middleware
    \/ StartPolling
    \/ GetUpdates
    \/ ForUpdate
    \/ Middlewares
    \/ ProcessMessageOwn
    \/ ProcessCallbackQuery
    \/ Sleep

MethodsSpec == Init /\ [][MethodsNext]_vars

\* A bot that registers message handlers only.
MessageNext ==
    \/ register_handler
    \/ StartPolling
    \/ PollingStep

MessageSpec == Init /\ [][MessageNext]_vars

\* A bot that has registered one message handler and one callback handler
\* with the default arguments, register_handler(h) and
\* register_callback_handler(h), and goes on to register its middlewares.
RegisteredInit ==
    /\ handlers = [message |-> <<[handler |-> 1, filters |-> None, state |-> None]>>,
                   callback_query |-> <<[handler |-> 1, filters |-> None]>>]
    /\ middlewares = <<>>
    /\ fsm_contexts = [u \in Users |-> Nothing]
    /\ store = [k \in Keys |-> Nothing]
    /\ pc = "setup"
    /\ batch_len = 0
    /\ batch_idx = 0
    /\ update = Nothing
    /\ mw_i = 1
    /\ scan_i = 1
    /\ calls = <<>>
    /\ context0 = Nothing
    /\ record0 = Nothing
    /\ exc = "none"
    /\ NoWebhook
    /\ NoTasks
    /\ NoChecks
    /\ NoRequests
    /\ NoModules

MiddlewareNext ==
    \/ register_middleware
    \/ StartPolling
    \/ PollingStep

MiddlewareSpec == RegisteredInit /\ [][MiddlewareNext]_vars

\* The event loop runs start_polling as long as the process lives, and every
\* call the loop awaits returns or raises.
FairSpec == MiddlewareSpec /\ WF_vars(PollingStep)

\* A bot that has registered its handlers and one or two of the middlewares
\* of middleware.py, and polls.
IncludedInit ==
    /\ handlers = [message |-> <<[handler |-> 1, filters |-> None, state |-> None]>>,
                   callback_query |-> <<[handler |-> 1, filters |-> None]>>]
    /\ \E k, l \in IncludedMiddlewares :
          \/ middlewares = <<Middleware(1, k)>>
          \/ middlewares = <<Middleware(1, k), Middleware(2, l)>>
    /\ fsm_contexts = [u \in Users |-> Nothing]
    /\ store = [k \in Keys |-> Nothing]
    /\ pc = "setup"
    /\ batch_len = 0
    /\ batch_idx = 0
    /\ update = Nothing
    /\ mw_i = 1
    /\ scan_i = 1
    /\ calls = <<>>
    /\ context0 = Nothing
    /\ record0 = Nothing
    /\ exc = "none"
    /\ NoWebhook
    /\ NoTasks
    /\ NoChecks
    /\ NoRequests
    /\ NoModules

IncludedNext ==
    \/ StartPolling
    \/ PollingStep

IncludedSpec == IncludedInit /\ [][IncludedNext]_vars

\* A bot whose registrations may carry a filter that raises, with a webhook
\* server made for it: it starts the server, or polling.
FilterErrorInit ==
    /\ \E f, g \in RaisingFilterChoices :
          handlers = [message |-> <<[handler |-> 1, filters |-> f, state |-> None]>>,
                      callback_query |-> <<[handler |-> 1, filters |-> g]>>]
    /\ middlewares = <<>>
    /\ fsm_contexts = [u \in Users |-> Nothing]
    /\ store = [k \in Keys |-> Nothing]
    /\ pc = "setup"
    /\ batch_len = 0
    /\ batch_idx = 0
    /\ update = Nothing
    /\ mw_i = 1
    /\ scan_i = 1
    /\ calls = <<>>
    /\ context0 = Nothing
    /\ record0 = Nothing
    /\ exc = "none"
    /\ secret_token \in SecretTokens
    /\ request = Nothing
    /\ response = 0
    /\ NoTasks
    /\ NoChecks
    /\ NoRequests
    /\ NoModules

\* The same bot with a webhook server made for it, WebhookServer(dispatcher,
\* secret_token=...), which it starts instead of polling if it chooses to.
ServeInit ==
    /\ handlers = [message |-> <<[handler |-> 1, filters |-> None, state |-> None]>>,
                   callback_query |-> <<[handler |-> 1, filters |-> None]>>]
    /\ middlewares = <<>>
    /\ fsm_contexts = [u \in Users |-> Nothing]
    /\ store = [k \in Keys |-> Nothing]
    /\ pc = "setup"
    /\ batch_len = 0
    /\ batch_idx = 0
    /\ update = Nothing
    /\ mw_i = 1
    /\ scan_i = 1
    /\ calls = <<>>
    /\ context0 = Nothing
    /\ record0 = Nothing
    /\ exc = "none"
    /\ secret_token \in SecretTokens
    /\ request = Nothing
    /\ response = 0
    /\ NoTasks
    /\ NoChecks
    /\ NoRequests
    /\ NoModules

ServeNext ==
    \/ register_middleware
    \/ StartPolling
    \/ StartWebhook
    \/ GetUpdates
    \/ ForUpdate
    \/ Sleep
    \/ Request
    \/ handle_webhook
    \/ handle_webhook_return
    \/ Middlewares
    \/ ProcessMessage
    \/ ProcessCallbackQuery

ServeSpec == ServeInit /\ [][ServeNext]_vars

FilterErrorSpec == FilterErrorInit /\ [][ServeNext]_vars

\* One coroutine that calls the storage, one call after the other.
\* Coroutine t awaits FSMContext.get(storage, user_id, chat_id), and holds
\* the context it returns.
ContextGet(t) ==
    /\ task[t].pc = "idle"
    /\ \E u \in Users, c \in ChatsOf(t) :
          /\ task' = [task EXCEPT ![t] =
                 [pc |-> "idle", op |-> Op("FSMContext.get", u, c, None, EmptyData, EmptyData),
                  read |-> store[Key(u, c)], value |-> FSMContext_get(store, u, c),
                  before |-> fsm[t]]]
          /\ fsm' = [fsm EXCEPT ![t] =
                 IF FSMContext_get(store, u, c) = Raised THEN @
                 ELSE FSMContext_get(store, u, c)]
    /\ Remember(t)
    /\ UNCHANGED <<store, dispatcherVars, webhookVars, restVars>>

StorageNext ==
    \E t \in Sequential :
        \/ SetState(t)
        \/ SetData(t)
        \/ RedisSet(t)
        \/ Clear(t)
        \/ GetState(t)

StorageSpec == Init /\ [][StorageNext]_vars

\* One coroutine that makes contexts and keeps data in them.
\* One coroutine writes records and obtains contexts with FSMContext.get.
AccessorNext ==
    \E t \in Sequential :
        \/ SetState(t)
        \/ SetData(t)
        \/ RedisSet(t)
        \/ Clear(t)
        \/ ContextGet(t)

AccessorSpec == Init /\ [][AccessorNext]_vars

DataNext ==
    \E t \in Sequential :
        \/ NewContext(t)
        \/ UpdateData(t)
        \/ Set(t)
        \/ GetData(t)
        \/ RedisSet(t)

DataSpec == Init /\ [][DataNext]_vars

\* One coroutine that writes a conversation through a context made from
\* what the store holds, and through nothing else.
CoherenceNext ==
    \E t \in Sequential :
        \/ LoadContext(t)
        \/ ContextSetState(t)
        \/ UpdateAnyData(t)
        \/ SetAny(t)
        \/ ContextClear(t)
        \/ Finish(t)
        \/ RedisSet(t)

CoherenceSpec == Init /\ [][CoherenceNext]_vars

\* One coroutine that makes contexts, gives them a state and data, clears
\* them or their keys, and reads the store.
ClearNext ==
    \E t \in Sequential :
        \/ NewContext(t)
        \/ ContextSetState(t)
        \/ UpdateData(t)
        \/ ContextClear(t)
        \/ Finish(t)
        \/ Clear(t)
        \/ RedisSet(t)
        \/ GetState(t)

ClearSpec == Init /\ [][ClearNext]_vars

\* Two coroutines that call the storage, their awaits interleaved.
ConcurrentNext ==
    \E t \in Concurrent :
        \/ SetState(t)
        \/ SetData(t)
        \/ RedisSet(t)
        \/ Clear(t)
        \/ GetState(t)

ConcurrentSpec == Init /\ [][ConcurrentNext]_vars

\* A dispatcher just made, nothing of it in use.
Constructed ==
    /\ handlers = [message |-> <<>>, callback_query |-> <<>>]
    /\ middlewares = <<>>
    /\ fsm_contexts = [u \in Users |-> Nothing]
    /\ store = [k \in Keys |-> Nothing]
    /\ pc = "setup"
    /\ batch_len = 0
    /\ batch_idx = 0
    /\ update = Nothing
    /\ mw_i = 1
    /\ scan_i = 1
    /\ calls = <<>>
    /\ context0 = Nothing
    /\ record0 = Nothing
    /\ exc = "none"
    /\ NoWebhook
    /\ NoTasks

\* A filter of the set is about to be checked against an event of the set.
Checking(filters, events) ==
    /\ Constructed
    /\ NoRequests
    /\ NoModules
    /\ check \in [filter : filters, event : events, result : {"none"}]

\* Command filters on messages with any text, or none.
CommandSpec == Checking(CommandFilters, TextMessages) /\ [][filter_check]_vars

\* Text filters on messages, CallbackData filters on callback queries.
PatternInit ==
    \/ Checking(TextFilters, TextMessages)
    \/ Checking(CallbackDataFilters, DataQueries)

PatternSpec == PatternInit /\ [][filter_check]_vars

\* Every built-in filter on messages and on callback queries.
Events == MediaMessages \cup ShortQueries

BuiltinInit ==
    \/ Checking({Command(Str(<<"a">>))}, Events)
    \/ Checking({Text(Str(<<"a">>)), CallbackData(Str(<<"a">>))}, Events)
    \/ Checking(ChatTypeFilters \cup MediaFilters, Events)
    \/ Checking(IdFilters, Events)

BuiltinSpec == BuiltinInit /\ [][filter_check]_vars

\* MediaType filters on messages.
MediaSpec == Checking(MediaFilters, MediaMessages) /\ [][filter_check]_vars

\* A caller of the Bot methods.
BotNext ==
    \/ Bot_call
    \/ Bot_request_post
    \/ Bot_request_return

BotSpec == Init /\ [][BotNext]_vars

\* An AuthMiddleware made with one of the arguments, given events.
AuthInit ==
    /\ Constructed
    /\ NoChecks
    /\ NoRequests
    /\ mw \in {[self |-> AuthMiddleware(a), event |-> Nothing, result |-> "none"] :
                  a \in AllowedUsersArgs}
    /\ story_handler = Nothing
    /\ topic_manager = Nothing

AuthSpec == AuthInit /\ [][Auth_process_update]_vars

\* A ThrottlingMiddleware made with one of the rate limits, given events.
ThrottlingInit ==
    /\ Constructed
    /\ NoChecks
    /\ NoRequests
    /\ mw \in {[self |-> ThrottlingMiddleware(r), event |-> Nothing, result |-> "none",
                 passed |-> <<>>] : r \in RateLimits}
    /\ story_handler = Nothing
    /\ topic_manager = Nothing

ThrottlingSpec == ThrottlingInit /\ [][Throttling_process_update]_vars

\* A StoryHandler made with a limit, a duration and a list of media types (or
\* without the list), and its callers.
StoryInit ==
    /\ Constructed
    /\ NoChecks
    /\ NoRequests
    /\ mw = Nothing
    /\ topic_manager = Nothing
    /\ story_handler \in
           {StoryState(StoryHandler(m, d, a), 0, 1, Nothing, Nothing, <<>>) :
               m \in {0, 1, 2}, d \in {1, 2},
               a \in {Nothing, [list |-> {}], [list |-> {"text"}]}}

StoryNext ==
    \/ create_story
    \/ delete_story
    \/ cleanup_expired_stories
    \/ StoryTick

StorySpec == StoryInit /\ [][StoryNext]_vars

\* A TopicManager made with a limit, and its callers.
TopicInit ==
    /\ Constructed
    /\ NoChecks
    /\ NoRequests
    /\ mw = Nothing
    /\ story_handler = Nothing
    /\ topic_manager \in
           {TopicState(TopicManager(m), Nothing, "none", Nothing, <<>>) : m \in {0, 1, 2}}

TopicNext ==
    \/ create_topic
    \/ change_topic
    \/ get_forum_topics

TopicSpec == TopicInit /\ [][TopicNext]_vars

\* A storage that holds the conversations whose ids share digits, and one
\* coroutine that writes them.
IsolationInit ==
    /\ handlers = [message |-> <<>>, callback_query |-> <<>>]
    /\ middlewares = <<>>
    /\ fsm_contexts = [u \in Users |-> Nothing]
    /\ store = [k \in IsolationKeys |-> Nothing]
    /\ pc = "setup"
    /\ batch_len = 0
    /\ batch_idx = 0
    /\ update = Nothing
    /\ mw_i = 1
    /\ scan_i = 1
    /\ calls = <<>>
    /\ context0 = Nothing
    /\ record0 = Nothing
    /\ exc = "none"
    /\ NoWebhook
    /\ NoTasks
    /\ NoChecks
    /\ NoRequests
    /\ NoModules

IsolationNext ==
    \E t \in Sequential :
        \/ SetStateOfAny(t)
        \/ SetDataOfAny(t)
        \/ ClearOfAny(t)
        \/ RedisSet(t)

IsolationSpec == IsolationInit /\ [][IsolationNext]_vars

(* ------------------------- reading the history ------------------------- *)

MessageCalls == SelectSeq(calls, LAMBDA c : c.kind = "message")

CallbackCalls == SelectSeq(calls, LAMBDA c : c.kind = "callback_query")

MiddlewareCalls == SelectSeq(calls, LAMBDA c : c.kind = "middleware")

\* The handler of message registration i was invoked for the current message.
Invoked(i) ==
    \E k \in 1..Len(MessageCalls) : MessageCalls[k].idx = handlers.message[i].handler

\* No handler registered before registration i was invoked for the message.
NoneInvokedBefore(i) == \A j \in 1..(i - 1) : ~Invoked(j)

\* Fi(e): the filter of a registration holds of the event (no filter: always).
FilterHolds(reg, text) == reg.filters = None \/ Check(reg.filters, text)

\* The state a context holds, none without a context; the state a record of
\* the store holds, none without a record.
StateIn(x) == IF x = Nothing THEN None ELSE x.state

\* A registration matches a message, in the words of the specification:
\* Fi(e) holds, and Si is none or equals the current state.
Matches(reg, message, current) ==
    /\ FilterHolds(reg, message.text)
    /\ (reg.state = None \/ reg.state = current)

\* The smallest index of a matching message registration, 0 without one; the
\* current state is the one of the context the dispatcher held for the sender
\* when the message arrived.
FirstMatch ==
    LET M == {i \in 1..Len(handlers.message) :
                 Matches(handlers.message[i], update.message, StateIn(context0))}
    IN IF M = {} THEN 0 ELSE CHOOSE i \in M : \A j \in M : i <= j

(* ------------------------------- claims -------------------------------- *)

\* C1: message sub-dispatch invokes at most one handler for a message: after
\* the first matching registration was invoked no later one is.
C1_AtMostOneMessageHandler == Len(MessageCalls) <= 1

C3_NoHandlerAfterRaise ==
    \A k \in 1..Len(MessageCalls) : MessageCalls[k].raised => k = Len(MessageCalls)

\* C4: a message handler registered with a required state label S, whose
\* filter holds and before which no handler was invoked, is invoked exactly
\* when the state the store holds for the message's (user_id, chat_id) is S.
C4_StoreStateGates ==
    pc = "message" =>
        \A i \in 1..Len(handlers.message) :
            (/\ i < scan_i
             /\ handlers.message[i].state \in States
             /\ FilterHolds(handlers.message[i], update.message.text)
             /\ NoneInvokedBefore(i))
            => (Invoked(i) <=> StateIn(record0) = handlers.message[i].state)

\* C5: a message handler registered with required state "*", whose filter
\* holds and before which no handler was invoked, is invoked exactly when the
\* conversation has a state (whatever its label).
C5_StarMatchesAnyState ==
    pc = "message" =>
        \A i \in 1..Len(handlers.message) :
            (/\ i < scan_i
             /\ handlers.message[i].state = "*"
             /\ FilterHolds(handlers.message[i], update.message.text)
             /\ NoneInvokedBefore(i))
            => (Invoked(i) <=> StateIn(context0) /= None)

\* C6: the state that lets a state-gated handler run for a message is the one
\* of the message's (user_id, chat_id): a state of the same user in another
\* chat never enables the handler.
C6_GatingIsPerUserAndChat ==
    pc = "message" =>
        \A i \in 1..Len(handlers.message) :
            (/\ handlers.message[i].state /= None
             /\ NoneInvokedBefore(i)
             /\ Invoked(i))
            => (/\ context0 /= Nothing
                /\ context0.user_id = update.message.from_user
                /\ context0.chat_id = update.message.chat)

\* C7: callback sub-dispatch invokes at most one handler for a callback query.
C7_AtMostOneCallbackHandler == Len(CallbackCalls) <= 1

\* C8: when process_update raises for an update of a batch, the updates after
\* it in the batch are still dispatched in the same polling cycle: the cycle
\* does not end with updates of the batch left.
C8_RestOfBatchDispatched ==
    (pc = "sleep" /\ exc = "process_update") => batch_idx = batch_len

\* C9: start_polling never ends by itself: whatever was raised during a
\* polling cycle, the loop comes to another get_updates.
C9_PollingNeverEnds == (pc /= "setup") ~> (pc = "fetch")

\* C9, its case: a cycle in which process_update raised, with an update of the
\* batch left, has come to its sleep.
C9_Witness == pc = "sleep" /\ exc = "process_update" /\ batch_idx < batch_len

\* C10: for every update, every registered middleware is called exactly once,
\* in registration order, and all are through before a handler is invoked.
C10_EveryMiddlewareCalledOnce ==
    (pc \in {"message", "callback_query"} \/ (pc = "sleep" /\ exc = "process_update")) =>
        /\ Len(MiddlewareCalls) = Len(middlewares)
        /\ \A k \in 1..Len(MiddlewareCalls) : MiddlewareCalls[k].idx = middlewares[k]

\* C10, amended: the middlewares are called one after the other in
\* registration order, each at most once, and none after one that raised;
\* when none raises every one is called exactly once, and all of them have
\* returned before any message or callback handler is invoked.
C10_MiddlewaresInOrderBeforeHandlers ==
    /\ Len(MiddlewareCalls) <= Len(middlewares)
    /\ \A k \in 1..Len(MiddlewareCalls) :
          /\ MiddlewareCalls[k].idx = middlewares[k]
          /\ calls[k].kind = "middleware"
          /\ MiddlewareCalls[k].raised => k = Len(calls)
    /\ (pc \in {"message", "callback_query"} \/ Len(calls) > Len(MiddlewareCalls)) =>
          /\ Len(MiddlewareCalls) = Len(middlewares)
          /\ \A k \in 1..Len(MiddlewareCalls) : ~MiddlewareCalls[k].raised

\* C10, its case: two middlewares returned, then a message handler ran.
C10_Witness ==
    /\ pc = "message"
    /\ Len(middlewares) = 2
    /\ Len(MiddlewareCalls) = 2
    /\ Len(MessageCalls) >= 1

\* C11: when a middleware raises, process_update raises with it and the
\* update is dropped: no middleware after it and no message or callback
\* handler is called for the update, and start_polling, whose except clause
\* took the exception, is at its sleep, on its way to the next get_updates.
C11_MiddlewareRaiseDropsUpdate ==
    \A k \in 1..Len(calls) :
        (calls[k].kind = "middleware" /\ calls[k].raised) =>
            /\ k = Len(calls)
            /\ \A j \in 1..k : calls[j].kind = "middleware"
            /\ pc = "sleep"
            /\ exc = "process_update"

\* C11, its case: the first of two middlewares raised for a message.
C11_Witness ==
    /\ pc = "sleep"
    /\ exc = "process_update"
    /\ Len(middlewares) = 2
    /\ update /= Nothing
    /\ update.message /= Nothing
    /\ Len(calls) = 1
    /\ calls[1].raised

\* A message or callback handler raised for the update at hand.
HandlerRaised ==
    \E k \in 1..Len(calls) :
        calls[k].kind \in {"message", "callback_query"} /\ calls[k].raised

\* C12: what a message or callback handler raises never leaves
\* process_update: process_update goes on and returns, the polling loop is
\* not on its exception path, and a webhook request is answered 200.
C12_HandlerExceptionStaysInside ==
    /\ HandlerRaised =>
          /\ exc = "none"
          /\ pc \in {"message", "callback_query", "respond_ok", "serve"}
          /\ (pc = "serve" => response = 200)
    /\ pc \in {"message", "callback_query"} => exc = "none"

\* C12, its case: a handler raised for the update of a webhook request, and
\* the request was answered.
C12_Witness ==
    /\ HandlerRaised
    /\ pc = "serve"
    /\ response = 200

\* The server has a secret token and the request at hand does not carry it.
SecretMismatch ==
    /\ request /= Nothing
    /\ secret_token /= None
    /\ request.header /= secret_token

\* C13: with a secret token configured, a request whose header is missing or
\* differs is answered 403 and process_update is never called for it; a
\* request with the matching header is parsed and, when it parses, dispatched.
C13_SecretGuardsDispatch ==
    /\ SecretMismatch =>
          /\ update = Nothing
          /\ calls = <<>>
          /\ pc \in {"handle_webhook", "serve"}
          /\ response = (IF pc = "serve" THEN 403 ELSE 0)
    /\ (request /= Nothing /\ ~SecretMismatch /\ pc = "serve") =>
          /\ response \in {200, 500}
          /\ request.body = "update" => update /= Nothing

\* C13, its case: a request without the header was answered by a server
\* that has a token.
C13_Witness ==
    /\ secret_token = "s"
    /\ request /= Nothing
    /\ request.header = None
    /\ request.body = "update"
    /\ pc = "serve"
    /\ response = 403

\* The call the coroutine that runs alone made last has this name, and has
\* returned.
LastIs(name) ==
    /\ task[1].pc = "idle"
    /\ task[1].op /= Nothing
    /\ task[1].op.name = name

\* The call it made before that one has this name.
PrevIs(name) ==
    /\ prev.op /= Nothing
    /\ prev.op.name = name

LastKey == Key(task[1].op.user_id, task[1].op.chat_id)

PrevKey == Key(prev.op.user_id, prev.op.chat_id)

\* C14: storage.set_state(user_id, chat_id, label) makes a record with the
\* label and an empty data mapping when the key has none, and otherwise
\* changes the state of the record and leaves its data as it was.
C14_SetStateKeepsData ==
    LastIs("set_state") =>
        /\ store[LastKey] /= Nothing
        /\ store[LastKey].state = task[1].op.state
        /\ store[LastKey].data =
              (IF task[1].read = Nothing THEN EmptyData ELSE task[1].read.data)

\* C14, its case: set_state gave a record that had data another label.
C14_Witness ==
    /\ LastIs("set_state")
    /\ task[1].read /= Nothing
    /\ task[1].read.data = [x |-> [int |-> 2], y |-> [int |-> 2]]
    /\ task[1].read.state = "A"
    /\ task[1].op.state = "B"

\* C15: storage.set_data(user_id, chat_id, data) makes a record without state
\* and with the data when the key has none, and otherwise replaces the whole
\* data mapping by the given one (no key of the old one is kept) and leaves
\* the state as it was.
C15_SetDataReplaces ==
    LastIs("set_data") =>
        /\ store[LastKey] /= Nothing
        /\ store[LastKey].data = task[1].op.data
        /\ store[LastKey].state =
              (IF task[1].read = Nothing THEN None ELSE task[1].read.state)

\* C15, its case: set_data gave a record in a state, whose data had the key
\* y, a mapping without y.
C15_Witness ==
    /\ LastIs("set_data")
    /\ task[1].read /= Nothing
    /\ task[1].read.state = "A"
    /\ task[1].read.data = [x |-> [int |-> 2], y |-> [int |-> 2]]
    /\ task[1].op.data = [x |-> [int |-> 1]]

\* C16: when the key has no record, set_state(u, c, S) for a label S followed
\* by get_state(u, c) returns the pair (S, {}).
C16_SetStateGetStateRoundTrip ==
    (/\ LastIs("get_state")
     /\ PrevIs("set_state")
     /\ PrevKey = LastKey
     /\ prev.op.state \in States
     /\ prev.read = Nothing)
    => task[1].value = [state |-> prev.op.state, data |-> EmptyData]

\* C17: update_data merges: after update_data(**kwargs) the context's data
\* has the given keys with the given values and every other key as before,
\* the record of the store holds that same mapping, and get_data returns the
\* context's mapping.
C17_UpdateDataMerges ==
    /\ LastIs("update_data") =>
          /\ DOMAIN fsm[1].data =
                DOMAIN task[1].before.data \cup DOMAIN task[1].op.kwargs
          /\ \A k \in DOMAIN task[1].op.kwargs :
                fsm[1].data[k] = task[1].op.kwargs[k]
          /\ \A k \in DOMAIN task[1].before.data \ DOMAIN task[1].op.kwargs :
                fsm[1].data[k] = task[1].before.data[k]
          /\ store[LastKey] /= Nothing
          /\ store[LastKey].data = fsm[1].data
    /\ LastIs("get_data") => task[1].value = fsm[1].data

\* C17, its case: update_data(x=1) then update_data(y=2) on a new context.
C17_Witness ==
    /\ LastIs("update_data")
    /\ PrevIs("update_data")
    /\ prev.op.kwargs = [x |-> [int |-> 1]]
    /\ task[1].op.kwargs = [y |-> [int |-> 2]]
    /\ fsm[1].data = [x |-> [int |-> 1], y |-> [int |-> 2]]
    /\ store[LastKey].data = [x |-> [int |-> 1], y |-> [int |-> 2]]

ClearNames == {"clear", "FSMContext.clear", "finish"}

\* C18: clear deletes the record: after storage.clear, FSMContext.clear or
\* FSMContext.finish the key has no record (it had none: nothing changed),
\* the context that was cleared has no state and empty data, and a get_state
\* of the key that follows returns None.
C18_ClearDeletesRecord ==
    /\ (task[1].op /= Nothing /\ task[1].op.name \in ClearNames) =>
          store[LastKey] = Nothing
    /\ (task[1].op /= Nothing /\ task[1].op.name \in {"FSMContext.clear", "finish"}) =>
          /\ fsm[1].state = None
          /\ fsm[1].data = EmptyData
    /\ (/\ LastIs("get_state")
        /\ prev.op /= Nothing
        /\ prev.op.name \in ClearNames
        /\ PrevKey = LastKey)
       => task[1].value = Nothing

\* C18, its case: finish on a context whose key had a record with a state and
\* data, then get_state of the key.
C18_Witness ==
    /\ LastIs("get_state")
    /\ PrevIs("finish")
    /\ PrevKey = LastKey
    /\ prev.read /= Nothing
    /\ prev.read.state = "A"
    /\ prev.read.data /= EmptyData
    /\ task[1].value = Nothing

\* The record a pending set_state or set_data makes from what it read.
MadeFromRead(t) ==
    IF task[t].op.name = "set_state"
    THEN IF task[t].read = Nothing
         THEN [state |-> task[t].op.state, data |-> EmptyData]
         ELSE [state |-> task[t].op.state, data |-> task[t].read.data]
    ELSE IF task[t].read = Nothing
         THEN [state |-> None, data |-> task[t].op.data]
         ELSE [state |-> task[t].read.state, data |-> task[t].op.data]

\* C19: the writes are read-modify-write without lock or compare-and-swap:
\* the record a set_state or set_data writes is made from what its own read
\* returned, whatever another coroutine has written to the key since; so of
\* two writes that both read before either wrote, one is lost.
C19_WriteMadeFromOwnRead ==
    [][\A t \in Concurrent :
          (task[t].pc = "write" /\ task'[t].pc = "idle") =>
              store'[Key(task[t].op.user_id, task[t].op.chat_id)] = MadeFromRead(t)]_vars

\* C19, its case: set_state("A") and set_data({x: 1}) for the same key both
\* read the key without record, both wrote, and the record has no state: the
\* write of set_state is lost.
C19_Witness ==
    /\ task[2].pc = "idle"
    /\ task[3].pc = "idle"
    /\ task[2].op /= Nothing
    /\ task[3].op /= Nothing
    /\ task[2].op.name = "set_state"
    /\ task[2].op.state = "A"
    /\ task[3].op.name = "set_data"
    /\ task[3].op.data = [x |-> [int |-> 1]]
    /\ task[2].read = Nothing
    /\ task[3].read = Nothing
    /\ store[Key(1, 1)] = [state |-> None, data |-> [x |-> [int |-> 1]]]

\* C20: every key of the store is absent or holds one record with both
\* fields, a state (a label or none) and a data mapping, under every
\* interleaving of set_state, set_data and clear.
C20_WholeRecords ==
    \A k \in Keys :
        \/ store[k] = Nothing
        \/ /\ DOMAIN store[k] = {"state", "data"}
           /\ store[k].state \in States \cup {None}
           /\ store[k].data \in DataMaps

\* C20, its case: a set_state and a set_data of two coroutines for the same
\* key both read the record another set_data had made, set_data wrote, then
\* set_state wrote: the record holds the label and the data that were read.
C20_Witness ==
    /\ task[2].pc = "idle"
    /\ task[3].pc = "idle"
    /\ task[2].op /= Nothing
    /\ task[3].op /= Nothing
    /\ task[2].op.name = "set_state"
    /\ task[2].op.state = "A"
    /\ task[3].op.name = "set_data"
    /\ task[3].op.data = [x |-> [int |-> 2], y |-> [int |-> 2]]
    /\ task[2].read = [state |-> None, data |-> [x |-> [int |-> 1]]]
    /\ task[3].read = [state |-> None, data |-> [x |-> [int |-> 1]]]
    /\ store[Key(1, 1)] = [state |-> "A", data |-> [x |-> [int |-> 1]]]

(* ----------------------------- C21 .. C30 ------------------------------ *)

\* A check of a filter made with the constructor of the name has returned
\* or raised.
Checked(func) == check.result /= "none" /\ check.filter.func = func

\* The text of the event under check: a str, not None.
HasText == hasattr(check.event, "text") /\ check.event.text /= Nothing

EventText == check.event.text.str

\* The first whitespace-delimited token of a text that starts with "/", the
\* leading slash stripped.
CommandToken(text) == Tail(split(text)[1])

\* C21: the Command filter matches exactly when the text of the message
\* starts with "/" and its first whitespace-delimited token, the leading
\* slash stripped, is one of the command names, case ignored; otherwise the
\* filter does not match: check returns false.
C21_CommandMatchesFirstToken ==
    Checked("check_command") =>
        check.result =
            Bool(/\ HasText
                 /\ startswith(EventText, "/")
                 /\ \E i \in 1..Len(check.filter.arg) :
                        lower(CommandToken(EventText)) = lower(check.filter.arg[i]))

\* A check of a Text or of a CallbackData filter has returned or raised.
PatternChecked == Checked("check_text") \/ Checked("check_callback")

\* What the filter was matched against: the text, the callback data.
Payload ==
    IF check.filter.func = "check_text" THEN check.event.text ELSE check.event.data

\* The expression matches the entire string.
FullMatch(pattern, string) ==
    /\ Len(pattern.atoms) = Len(string)
    /\ \A i \in 1..Len(pattern.atoms) : AtomMatches(pattern.atoms[i], string[i])

\* The filter under check was made from a plain string.
FromString == "str" \in DOMAIN check.filter.given

\* C22: a Text or CallbackData filter that matches has matched the whole
\* text / callback data: the expression matches all of it, a proper prefix
\* is not enough; and a filter made from a plain string matches only the
\* text / callback data equal to that string.
C22_WholeStringMatch ==
    (PatternChecked /\ check.result = "True") =>
        /\ FullMatch(check.filter.arg, Payload.str)
        /\ (FromString => Payload.str = check.filter.given.str)

\* The field the filter under check inspects is absent on the event: the
\* event has no such field, or the field is none.
Absent(name) == ~hasattr(check.event, name) \/ check.event[name] = Nothing

InspectedAbsent ==
    CASE check.filter.func \in {"check_command", "check_text"} -> Absent("text")
      [] check.filter.func = "check_callback" -> Absent("data")
      [] check.filter.func \in {"check_chat_type", "check_chat_id"} -> Absent("chat")
      [] check.filter.func = "check_user_id" -> Absent("from_user")
      [] check.filter.func = "check_media_type" ->
            \A i \in 1..Len(check.filter.arg) : Absent(check.filter.arg[i])

\* C23: a built-in filter checked against an event on which the field it
\* inspects is absent returns false, and does not raise.
C23_AbsentFieldIsFalse ==
    (check.result /= "none" /\ InspectedAbsent) => check.result = "False"

\* The message carries an attachment of one of the kinds named, at least.
Carries(kinds) == \E i \in 1..Len(kinds) : ~Absent(kinds[i])

\* C24: MediaType(k1..kn).check(message) is true exactly when the message
\* carries a non-none attachment of one of the kinds named, and false when
\* every kind named is none on the message.
C24_MediaTypeAnyKind ==
    Checked("check_media_type") => check.result = Bool(Carries(check.filter.arg))

\* The list is the earlier list, with entries added at its end or none.
IsExtension(earlier, later) ==
    /\ Len(earlier) <= Len(later)
    /\ SubSeq(later, 1, Len(earlier)) = earlier

\* The list is the earlier list with exactly one entry added at its end.
OneAppended(earlier, later) ==
    /\ Len(later) = Len(earlier) + 1
    /\ SubSeq(later, 1, Len(earlier)) = earlier

\* C25: a register_handler / register_callback_handler call appends exactly
\* one entry at the end of the list of its category and leaves the list of
\* the other category and the middlewares as they are; and no step of the
\* dispatcher removes, reorders or replaces a registration: after every step
\* each list is an extension of what it was.
C25_RegistrationsAppendOnly ==
    [][/\ register_handler =>
            /\ OneAppended(handlers.message, handlers'.message)
            /\ handlers'.callback_query = handlers.callback_query
            /\ middlewares' = middlewares
       /\ register_callback_handler =>
            /\ OneAppended(handlers.callback_query, handlers'.callback_query)
            /\ handlers'.message = handlers.message
            /\ middlewares' = middlewares
       /\ IsExtension(handlers.message, handlers'.message)
       /\ IsExtension(handlers.callback_query, handlers'.callback_query)
       /\ IsExtension(middlewares, middlewares')]_vars

\* Two registrations made with the same arguments both stand, one after the
\* other, next to a callback registration, while a message is dispatched.
C25_Witness ==
    /\ pc = "message"
    /\ Len(handlers.message) = 2
    /\ handlers.message[1].filters = handlers.message[2].filters
    /\ handlers.message[1].state = handlers.message[2].state
    /\ handlers.message[1].handler /= handlers.message[2].handler
    /\ Len(handlers.callback_query) = 1
    /\ Len(MessageCalls) = 2

\* The check of a filter raised for the update at hand.
FilterRaised ==
    \E k \in 1..Len(calls) : calls[k].kind = "filter" /\ calls[k].raised

\* C26: what the check of a filter raises during sub-dispatch has the outcome
\* of what a handler raises: it does not leave process_update, which goes on
\* and returns; the polling loop is not on its exception path, and a webhook
\* request is answered 200.
C26_FilterExceptionLikeHandlerException ==
    FilterRaised =>
        /\ exc = "none"
        /\ pc \in {"message", "callback_query", "respond_ok", "serve"}
        /\ (pc = "serve" => response = 200)

\* Every middleware has been awaited for the update at hand, and returned.
AllMiddlewaresReturned ==
    /\ update /= Nothing
    /\ Len(MiddlewareCalls) = Len(middlewares)
    /\ \A k \in 1..Len(MiddlewareCalls) : ~MiddlewareCalls[k].raised

\* C27: no middleware of middleware.py prevents downstream processing. Once
\* the middlewares have returned for an update, process_update goes on to
\* the dispatch of its message or callback query; and the process_update of
\* an included middleware does return, be it without calling its wrapped
\* handler: it raises only what its wrapped handler raised, which Logging
\* and Metrics pass on.
C27_IncludedMiddlewaresLetDispatchHappen ==
    /\ AllMiddlewaresReturned =>
          /\ exc = "none"
          /\ pc \in {"middlewares", "message", "callback_query"}
    /\ \A k \in 1..Len(MiddlewareCalls) :
          MiddlewareCalls[k].raised => MiddlewareCalls[k].idx.kind \in {"logging", "metrics"}

\* process_update is at work on an update.
InProcessUpdate == pc \in {"middlewares", "message", "callback_query"}

\* C28: the polling loop processes the updates of a batch one at a time, in
\* the order delivered: process_update is called for update k+1 from the
\* loop only, when the call for update k has returned, and it is the next of
\* the batch; while process_update is at work no other update is taken and
\* nothing is fetched; and a fetch starts only when no update of a batch is
\* left or at hand.
C28_OneAtATimeInOrder ==
    [][/\ (~InProcessUpdate /\ InProcessUpdate') =>
            /\ pc = "for_update"
            /\ batch_idx' = batch_idx + 1
            /\ batch_idx' <= batch_len
       /\ InProcessUpdate => (batch_idx' = batch_idx /\ batch_len' = batch_len)
       /\ batch_idx' /= batch_idx =>
            \/ pc = "for_update" /\ batch_idx' = batch_idx + 1
            \/ pc \in {"fetch", "sleep"} /\ batch_idx' = 0
       /\ (pc = "fetch" /\ pc' /= "fetch") =>
            /\ batch_idx = batch_len
            /\ update = Nothing]_vars

\* C28, its case: the second update of a batch of two is dispatched, after
\* the first.
C28_Witness ==
    /\ pc = "callback_query"
    /\ batch_len = 2
    /\ batch_idx = 2
    /\ Len(CallbackCalls) = 1

\* The context FSMContext.get is to return for what the key held.
GotOrCreated(op, record) ==
    IF record = Nothing
    THEN FSMContext(op.user_id, op.chat_id, None, EmptyData)
    ELSE FSMContext(op.user_id, op.chat_id, record.state, record.data)

\* C29: FSMContext.get(storage, user_id, chat_id) returns a context for the
\* key whose state and data are those of the record stored for it, or a
\* context without state and with empty data when the key has no record; the
\* record of the key is as it was.
C29_GetOrCreate ==
    LastIs("FSMContext.get") =>
        /\ task[1].value = GotOrCreated(task[1].op, task[1].read)
        /\ store[LastKey] = task[1].read

\* The Bot method at hand is through, and its request had a response.
Answered == api.pc = "done" /\ api.status /= 0

\* C30: a Bot method whose HTTP response is not a 2xx, or whose response
\* body has ok: false, ends in an error raised to its caller, after exactly
\* one request.
C30_TransportErrorsRaisedOnce ==
    (Answered /\ (api.status \notin 200..299 \/ api.body = "not_ok")) =>
        /\ api.outcome = "raised"
        /\ api.attempts = 1

(* ------------------------------ C31 .. C40 ----------------------------- *)

\* The Bot method at hand got a 2xx response with {"ok": true, "result": ...}
\* and returned.
Succeeded == api.pc = "done" /\ api.outcome = "returned" /\ api.body = "ok"

\* C31: a Bot method that returns has issued exactly one request, named after
\* the vendor method (getMe for get_me, sendMessage for send_message), with
\* exactly chat_id, text and the extra keyword arguments for send_message,
\* and what it returns is the "result" payload of the response.
C31_OneRequestResultReturned ==
    Succeeded =>
        /\ api.attempts = 1
        /\ api.method = "get_me" => api.name = "getMe"
        /\ api.method = "send_message" =>
              /\ api.name = "sendMessage"
              /\ api.data = {"chat_id", "text"} \cup api.kwargs
        /\ api.value = json(api.body).result

\* C32: on a Dispatcher whose handlers never write fsm_contexts, no operation
\* of the Dispatcher adds, removes or changes an entry of fsm_contexts: it
\* is as empty as __init__ made it; and no message handler registered with
\* a required state is ever invoked.
C32_ContextsStayEmpty ==
    /\ \A u \in Users : fsm_contexts[u] = Nothing
    /\ \A k \in 1..Len(calls) :
          calls[k].kind = "message" => handlers.message[calls[k].idx].state = None

\* C32, its case: the first registration requires a state, the store holds
\* that very state for the conversation of the message under dispatch, the
\* filter of the registration lets the message through, and the scan has gone
\* past the registration without a call.
C32_Witness ==
    /\ pc = "message"
    /\ scan_i = 2
    /\ calls = <<>>
    /\ handlers.message[1].state = "A"
    /\ FiltersPass(handlers.message[1].filters, update.message.text)
    /\ record0 /= Nothing
    /\ record0.state = "A"

\* The record the store holds for the conversation of the context of the
\* coroutine that runs alone.
StoredFor(ctx) == store[Key(ctx.user_id, ctx.chat_id)]

\* C33: a context made from what the store holds, and the only writer of its
\* key, holds after each of its calls the state and the data of the stored
\* record, or holds (none, empty) when the store has no record.
C33_ContextEqualsRecord ==
    (task[1].pc = "idle" /\ fsm[1] /= Nothing) =>
        IF StoredFor(fsm[1]) = Nothing
        THEN fsm[1].state = None /\ fsm[1].data = EmptyData
        ELSE /\ fsm[1].state = StoredFor(fsm[1]).state
             /\ fsm[1].data = StoredFor(fsm[1]).data

\* C34: a set_state, set_data or clear for one conversation changes the
\* record of no other conversation, be it one of the same user or one in the
\* same chat: a step changes at most the record under the key of the call it
\* belongs to; and two different (user, chat) pairs have different keys.
C34_KeyIsolation ==
    /\ [][\A k \in DOMAIN store :
             store'[k] /= store[k] =>
                 k = Key(task'[1].op.user_id, task'[1].op.chat_id)]_vars
    /\ [](\A p, q \in IsolationPairs :
             p /= q => Key(p[1], p[2]) /= Key(q[1], q[2]))

\* C34, its case: the three conversations had records, those of user 1 in
\* chat 11 and of user 11 in chat 1 differ, and the one of user 1 in chat 1,
\* which shares its user with the one and its chat with the other, was
\* cleared.
C34_Witness ==
    /\ task[1].pc = "idle"
    /\ task[1].op /= Nothing
    /\ task[1].op.name = "clear"
    /\ task[1].op.user_id = 1
    /\ task[1].op.chat_id = 1
    /\ task[1].read /= Nothing
    /\ store[Key(1, 1)] = Nothing
    /\ store[Key(1, 11)] /= Nothing
    /\ store[Key(11, 1)] /= Nothing
    /\ store[Key(1, 11)] /= store[Key(11, 1)]

\* C35: AuthMiddleware awaits its handler for an event only if the event has
\* a sender whose id is in the allowed_users it was made with, whatever that
\* argument was, the empty set and the omitted argument included.
C35_OnlyAllowedUsersPass ==
    (mw /= Nothing /\ mw.result = "invoked") =>
        /\ hasattr(mw.event, "from_user")
        /\ mw.event.from_user /= Nothing
        /\ mw.event.from_user.id \in mw.self.allowed_users

\* The events of the history that have the key of the event.
SameUser(e, f) == ThrottlingKey(e) = ThrottlingKey(f)

\* C36: of the updates a ThrottlingMiddleware passed on for one user, a later
\* one is dated at least rate_limit after an earlier one; last_update changes
\* only when an update is passed on, and only for the user of that update.
C36_RateLimit ==
    /\ [](mw /= Nothing =>
            \A i, j \in 1..Len(mw.passed) :
                (i < j /\ SameUser(mw.passed[i], mw.passed[j])) =>
                    mw.passed[j].date - mw.passed[i].date >= mw.self.rate_limit)
    /\ [][/\ mw'.self.last_update /= mw.self.last_update =>
                /\ mw'.result = "invoked"
                /\ mw'.passed = Append(mw.passed, mw'.event)
          /\ \A k \in DOMAIN mw.self.last_update :
                (hasattr(mw'.event, "from_user") => k /= ThrottlingKey(mw'.event)) =>
                    /\ k \in DOMAIN mw'.self.last_update
                    /\ mw'.self.last_update[k] = mw.self.last_update[k]]_vars

\* C36, its case: an update of user 1 and then one of user 2 were passed on,
\* and the one given last, of user 1 and dated less than rate_limit after the
\* one passed for user 1 but rate_limit after the one of user 2, was not.
C36_Witness ==
    /\ mw /= Nothing
    /\ mw.self.rate_limit = 2
    /\ Len(mw.passed) = 2
    /\ mw.passed[1].from_user = [id |-> 1]
    /\ mw.passed[2].from_user = [id |-> 2]
    /\ mw.result = "returned"
    /\ mw.event.from_user = [id |-> 1]
    /\ mw.event.date = mw.passed[1].date + 1
    /\ mw.event.date >= mw.passed[2].date + 2

\* The call made last on the StoryHandler.
StoryCall(name) ==
    /\ story_handler /= Nothing
    /\ story_handler.op /= Nothing
    /\ story_handler.op.name = name

\* The unexpired stories the cache held for the user before the call.
UnexpiredBefore(user_id) ==
    IF user_id \in DOMAIN story_handler.before
    THEN Unexpired(story_handler.before[user_id], story_handler.now)
    ELSE <<>>

\* C37: no user ever has more than max_stories_per_user unexpired stories in
\* the cache; and a create_story for a user who has that many, or with a
\* media type that is not allowed, returns None and leaves the cache as it
\* was.
C37_StoryLimit ==
    story_handler /= Nothing =>
        /\ \A u \in StoryUsers :
              Len(get_user_stories(story_handler.self, u, story_handler.now))
                  <= story_handler.self.max_stories_per_user
        /\ (/\ StoryCall("create_story")
            /\ \/ Len(UnexpiredBefore(story_handler.op.user_id))
                      >= story_handler.self.max_stories_per_user
               \/ story_handler.op.media_type
                      \notin story_handler.self.allowed_media_types)
              => /\ story_handler.result = Nothing
                 /\ story_handler.self.story_cache = story_handler.before

\* C37, its case: the user has an expired story and as many unexpired ones
\* as the limit allows, and a create_story with an allowed media type was
\* turned down.
C37_Witness ==
    /\ StoryCall("create_story")
    /\ story_handler.self.max_stories_per_user = 1
    /\ story_handler.op.user_id = 1
    /\ is_allowed_media_type(story_handler.self, story_handler.op.media_type)
    /\ story_handler.result = Nothing
    /\ 1 \in DOMAIN story_handler.self.story_cache
    /\ Len(story_handler.self.story_cache[1]) = 2
    /\ Len(get_user_stories(story_handler.self, 1, story_handler.now)) = 1

\* The list of the user holds a story of the id.
HasStory(cache, user_id, story_id) ==
    /\ user_id \in DOMAIN cache
    /\ \E k \in 1..Len(cache[user_id]) : cache[user_id][k].id = story_id

\* C38: delete_story returns True exactly when the list of the user held a
\* story of the id and holds none after the call; when it held none, or the
\* user has no list, it returns False and leaves the cache as it was.
C38_DeleteTellsRemoval ==
    StoryCall("delete_story") =>
        LET user_id == story_handler.op.user_id
            story_id == story_handler.op.story_id
        IN  /\ story_handler.result.returned
                  <=> /\ HasStory(story_handler.before, user_id, story_id)
                      /\ ~HasStory(story_handler.self.story_cache, user_id, story_id)
            /\ ~HasStory(story_handler.before, user_id, story_id)
                  => story_handler.self.story_cache = story_handler.before

\* The call made last is one of the five calls that change a topic.
TopicChange ==
    /\ topic_manager /= Nothing
    /\ topic_manager.op /= Nothing
    /\ topic_manager.op.name \in
           {"create_topic", "edit_topic", "close_topic", "reopen_topic", "delete_topic"}

\* The call made last could not succeed: the bot call raised or returned a
\* false or incomplete result, the chat is no forum, or the chat had as many
\* cached topics as the limit allows.
TopicCallFailed ==
    \/ topic_manager.outcome \in {"raises", "falsy", "incomplete"}
    \/ /\ topic_manager.op.name = "create_topic"
       /\ \/ topic_manager.op.chat /= "forum"
          \/ TopicCount(topic_manager.before, topic_manager.op.chat_id)
                 >= topic_manager.self.max_topics_per_group

\* C39: create_topic, edit_topic, close_topic, reopen_topic and delete_topic
\* change topic_cache only when the bot call returned a successful result;
\* when the bot call raises or returns a false or incomplete result, or the
\* chat is no forum, or the topic limit is reached, the call returns None or
\* False and topic_cache is as it was.
C39_CacheOnlyOnSuccess ==
    TopicChange =>
        /\ topic_manager.self.topic_cache /= topic_manager.before =>
               topic_manager.outcome = "ok"
        /\ TopicCallFailed =>
               /\ topic_manager.result \in {Nothing, [returned |-> FALSE]}
               /\ topic_manager.self.topic_cache = topic_manager.before

\* C40: after any sequence of create_topic, edit_topic, close_topic,
\* reopen_topic, delete_topic and get_forum_topics, no chat has more cached
\* topics than max_topics_per_group.
C40_TopicLimit ==
    topic_manager /= Nothing =>
        \A chat_id \in DOMAIN topic_manager.self.topic_cache :
            TopicCount(topic_manager.self.topic_cache, chat_id)
                <= topic_manager.self.max_topics_per_group

====
